---- MODULE Spec2Model ----
(***************************************************************************)
(* Interpolation and subsumption core of Tracer-X KLEE:                    *)
(*   lib/Core/ITree.cpp       interpolation tree, path condition,          *)
(*                            subsumption table and subsumption check      *)
(*   lib/Core/Dependency.cpp  dependency context and allocation graph      *)
(*                                                                         *)
(* Several state machines share the module:                                *)
(*   SpecTree   the ITree API driven by an executor                        *)
(*   SpecOwn    the node API: split, addConstraint and remove              *)
(*   SpecGraph  AllocationGraph::addNewEdge on an initially empty graph    *)
(*   SpecDep    Dependency::execute on a chain of dependency contexts      *)
(*   SpecMark   one state that stores, adds constraints and marks cores    *)
(*   SpecCore   Dependency::execute and Dependency::markAllValues          *)
(*   SpecLoadedPointer  the instructions with a loaded pointer             *)
(*   SpecShadow the shadow array map and getShadowExpression               *)
(*   SpecFM     simplifyWithFourierMotzkin on an existential body          *)
(*   SpecUnsatCore  the two consumers of unsat cores                       *)
(*   SpecSink   addNewEdge and consumeSinkNode on one graph                *)
(*   SpecFlow   execute, bindCallArguments and bindReturnValue             *)
(*   SpecBuild  the allocation graph of one unsat core and its draining    *)
(*   SpecInterpolation  unsatCoreInterpolation step by step, with fairness *)
(***************************************************************************)
EXTENDS Integers, Sequences, FiniteSets, TLC

(***************************************************************************)
(* Bounds of the model.                                                    *)
(***************************************************************************)
MaxSplits == 2      \* ITree::split calls in one behaviour
MaxFrames == 1      \* PathCondition frames an executor-driven behaviour allocates
MaxOwnFrames == 2   \* PathCondition frames a behaviour of the bare node API allocates
MaxValues == 2      \* VersionedValue objects stored by the tree's contexts
MaxVal == 2         \* symbolic bytes range over 0..MaxVal
NumArrays == 1      \* symbolic arrays of the program
MaxPP == 1          \* block-head instructions 1..MaxPP

NULL == 0

\* The value of F at the value of v.
With(v, F(_)) == CHOOSE r \in {F(x) : x \in {v}} : TRUE

Put(map, k, v) == [j \in DOMAIN map \cup {k} |-> IF j = k THEN v ELSE map[j]]

Nodes == 1..(1 + 2 * MaxSplits)
Dom == 0..MaxVal
ProgramPoints == 1..MaxPP
\* Instruction identities: the block heads and one instruction inside a block.
Instructions == 1..(MaxPP + 1)

(***************************************************************************)
(* Expressions.  A value expression is <<"Constant", c>> or                *)
(* <<"Read", array>>; a constraint is <<"Slt", l, r>> or <<"Eq", l, r>>    *)
(* over value expressions, or a Boolean constant <<"Constant", 0 or 1>>.   *)
(* Arrays are numbers: XArray is the program's symbolic array, and         *)
(* shadowArray maps it to its shadow counterpart.                          *)
(***************************************************************************)
XArray == NumArrays
SourceArrays == 1..NumArrays

shadowArray == [a \in SourceArrays |-> a + NumArrays]

ConstantExpr(c) == <<"Constant", c>>
ReadExpr(a) == <<"Read", a>>
SltExpr(l, r) == <<"Slt", l, r>>
EqExpr(l, r) == <<"Eq", l, r>>

isConstant(e) == e[1] = "Constant"
isRead(e) == e[1] = "Read"
isTrue(e) == isConstant(e) /\ e[2] = 1
isFalse(e) == isConstant(e) /\ e[2] = 0

\* Arrays read by an expression.
ArraysOf(e) ==
  IF isRead(e) THEN {e[2]}
  ELSE IF isConstant(e) THEN {}
  ELSE (IF isRead(e[2]) THEN {e[2][2]} ELSE {}) \cup
       (IF isRead(e[3]) THEN {e[3][2]} ELSE {})

\* ShadowArray::getShadowExpression: a Read is rebuilt over the shadow of its
\* root array, a Constant is returned as is, every other kind is rebuilt
\* from its shadowed kids.
getShadowExpression(e) ==
  IF isRead(e) THEN ReadExpr(shadowArray[e[2]])
  ELSE IF isConstant(e) THEN e
  ELSE <<e[1],
         IF isRead(e[2]) THEN ReadExpr(shadowArray[e[2][2]]) ELSE e[2],
         IF isRead(e[3]) THEN ReadExpr(shadowArray[e[3][2]]) ELSE e[3]>>

\* The shadow arrays that shadow-renaming e reports in replacements.
ShadowReplacements(e) == {shadowArray[a] : a \in ArraysOf(e) \cap SourceArrays}

\* Value of an expression under an assignment env of a byte to every array.
AllArrays == 1..(2 * NumArrays)
Envs == [AllArrays -> Dom]

EvalValue(e, env) == IF isConstant(e) THEN e[2] ELSE env[e[2]]

EvalBool(e, env) ==
  IF isConstant(e) THEN e[2] = 1
  ELSE IF e[1] = "Slt" THEN EvalValue(e[2], env) < EvalValue(e[3], env)
  ELSE EvalValue(e[2], env) = EvalValue(e[3], env)

\* A conjunction is a sequence of constraints; the empty sequence is the
\* null ref<Expr>.
EvalConj(conj, env) == \A i \in 1..Len(conj) : EvalBool(conj[i], env)

\* Expr::create of a comparison folds two constant kids.
CreateCmp(kind, l, r) ==
  IF isConstant(l) /\ isConstant(r)
  THEN IF kind = "Slt"
       THEN ConstantExpr(IF l[2] < r[2] THEN 1 ELSE 0)
       ELSE ConstantExpr(IF l[2] = r[2] THEN 1 ELSE 0)
  ELSE <<kind, l, r>>

\* The constraints an executor adds and the values a program stores.
ConstraintPool == { SltExpr(ConstantExpr(0), ReadExpr(XArray)),
                    SltExpr(ReadExpr(XArray), ConstantExpr(MaxVal)) }
StoredPool == { ReadExpr(XArray), ConstantExpr(0) }

(***************************************************************************)
(* State of the interpolation tree.                                        *)
(*   itree        ITreeNode objects: parent, left, right, nodeId,          *)
(*                isSubsumed, pathCondition (head frame) and store, the    *)
(*                value last stored to the allocation site by the node's   *)
(*                own dependency context (NULL when it stored none)        *)
(*   live         the nodes constructed and not yet destroyed              *)
(*   nextNode     the next ITreeNode to construct                          *)
(*   frames       PathCondition objects by address: constraint, tail,      *)
(*                core, shadowed, condition (the VersionedValue the        *)
(*                branch condition was computed from, or NULL)             *)
(*   freed        the frames already deleted                               *)
(*   valuesList   VersionedValue objects by address: expr, inCore          *)
(*   subsumptionTable  nodeId -> sequence of SubsumptionTableEntry         *)
(*   currentINode ITree::currentINode                                      *)
(*   crashed      the process dereferenced a null pointer and stopped      *)
(*   last         what the last operation was and returned: for a check,   *)
(*                the instruction, the result, the subsuming entry, and    *)
(*                per examined entry the return path and the solver's      *)
(*                answer, and whether a clause of the unsat core had no    *)
(*                marker; for a remove, the nodes deleted and the number   *)
(*                of entries stored                                        *)
(***************************************************************************)
VARIABLES itree, live, nextNode, frames, freed, valuesList, subsumptionTable,
          currentINode, crashed, last

treeVars == <<itree, live, nextNode, frames, freed, valuesList,
              subsumptionTable, currentINode, crashed, last>>

NoNode == [parent |-> NULL, left |-> NULL, right |-> NULL, nodeId |-> 0,
           isSubsumed |-> FALSE, pathCondition |-> NULL, store |-> NULL]

NoOp == [op |-> "none", inst |-> 0, res |-> FALSE, calls |-> 0, by |-> 0,
         paths |-> <<>>, answers |-> <<>>, deleted |-> {}, stored |-> 0,
         skipped |-> FALSE]

\* The memory of a deleted frame and of a deleted value.
NoFrame == [constraint |-> <<"Constant", 1>>, tail |-> NULL, core |-> FALSE,
            shadowed |-> FALSE, condition |-> NULL]

NoValue == [expr |-> <<"Constant", 0>>, inCore |-> FALSE, owner |-> NULL]

\* A constructor that leaves the path condition of the new node empty.
ITreeNodeDetached(p) ==
  [parent |-> p, left |-> NULL, right |-> NULL, nodeId |-> 0,
   isSubsumed |-> FALSE, pathCondition |-> NULL, store |-> NULL]

\* ITreeNode::ITreeNode: no children, nodeId 0, not subsumed, the parent's
\* path-condition head, a new Dependency chained to the parent's.
ITreeNode(p) ==
  [parent |-> p, left |-> NULL, right |-> NULL, nodeId |-> 0,
   isSubsumed |-> FALSE,
   pathCondition |-> IF p # NULL THEN itree[p].pathCondition ELSE NULL,
   store |-> NULL]

\* ITree::ITree: the root node is the current node; the table is empty.
TreeInit ==
  /\ itree = [n \in Nodes |-> NoNode]
  /\ live = {1}
  /\ nextNode = 2
  /\ frames = <<>>
  /\ freed = {}
  /\ valuesList = <<>>
  /\ subsumptionTable = [k \in 0..MaxPP |-> <<>>]
  /\ currentINode = 1
  /\ crashed = FALSE
  /\ last = NoOp

\* The frames from f to the end of the list, following PathCondition::cdr.
RECURSIVE Chain(_)
Chain(f) == IF f = NULL THEN <<>> ELSE <<f>> \o Chain(frames[f].tail)

ChainSet(f) == {Chain(f)[i] : i \in 1..Len(Chain(f))}

\* The constraints of a node's path condition, newest first.
PathConstraints(n) ==
  [i \in 1..Len(Chain(itree[n].pathCondition)) |->
     frames[Chain(itree[n].pathCondition)[i]].constraint]

Feasible(conj) == \E env \in Envs : EvalConj(conj, env)

\* A live node whose path condition runs through a deleted frame.
Dangling == \E n \in live : ChainSet(itree[n].pathCondition) \cap freed # {}

\* Dependency::getLatestValue / stores along the context chain: the value
\* last stored to the site, by the node's own context or else an ancestor's.
RECURSIVE LatestStore(_)
LatestStore(n) ==
  IF n = NULL THEN NULL
  ELSE IF itree[n].store # NULL THEN itree[n].store
  ELSE LatestStore(itree[n].parent)

IsLeaf(n) == itree[n].left = NULL /\ itree[n].right = NULL

(***************************************************************************)
(* ITree::split and ITreeNode::split.                                      *)
(***************************************************************************)
Split(p) ==
  /\ ~crashed
  /\ p \in live
  /\ IsLeaf(p)                                 \* assert(left == 0 && right == 0)
  /\ nextNode + 1 <= 1 + 2 * MaxSplits
  /\ itree' = [itree EXCEPT ![p].left = nextNode,
                            ![p].right = nextNode + 1,
                            ![nextNode] = ITreeNode(p),
                            ![nextNode + 1] = ITreeNode(p)]
  /\ live' = live \cup {nextNode, nextNode + 1}
  /\ nextNode' = nextNode + 2
  /\ last' = NoOp
  /\ UNCHANGED <<frames, freed, valuesList, subsumptionTable, currentINode,
                 crashed>>

(***************************************************************************)
(* ITreeNode::addConstraint: a new PathCondition frame in front of the     *)
(* node's list.  The frame's condition is the latest versioned value of    *)
(* the branch condition: link says whether that value was computed from    *)
(* the value stored at the allocation site or from no tracked value.  The  *)
(* executor adds the constraint of a branch it found feasible and not      *)
(* already decided by the path.                                            *)
(***************************************************************************)
PathCondition(constraint, condition, prev) ==
  [constraint |-> constraint, tail |-> prev, core |-> FALSE,
   shadowed |-> FALSE, condition |-> condition]

AddConstraint(n, c, link) ==
  /\ ~crashed
  /\ n \in live
  /\ Feasible(<<c>> \o PathConstraints(n))
  /\ \A i \in 1..Len(PathConstraints(n)) : PathConstraints(n)[i] # c
  /\ link => /\ LatestStore(n) # NULL
             /\ isRead(valuesList[LatestStore(n)].expr)
  /\ frames' = Append(frames,
                 PathCondition(c, IF link THEN LatestStore(n) ELSE NULL,
                               itree[n].pathCondition))
  /\ itree' = [itree EXCEPT ![n].pathCondition = Len(frames) + 1]
  /\ last' = NoOp
  /\ UNCHANGED <<live, nextNode, freed, valuesList, subsumptionTable,
                 currentINode, crashed>>

(***************************************************************************)
(* ITree::execute of a Store on the current node: the stored value         *)
(* becomes the newest content of the allocation site in the node's own     *)
(* dependency context.                                                     *)
(***************************************************************************)
ExecuteStore(e) ==
  /\ ~crashed
  /\ currentINode \in live
  /\ Len(valuesList) < MaxValues
  /\ valuesList' = Append(valuesList,
                    [expr |-> e, inCore |-> FALSE, owner |-> currentINode])
  /\ itree' = [itree EXCEPT ![currentINode].store = Len(valuesList) + 1]
  /\ last' = NoOp
  /\ UNCHANGED <<live, nextNode, frames, freed, subsumptionTable,
                 currentINode, crashed>>

(***************************************************************************)
(* ITree::setCurrentINode: the state's node becomes current and takes the  *)
(* program point as its nodeId if it has none yet.  Execution states sit   *)
(* at the leaves ITreeNode::split handed them.                             *)
(***************************************************************************)
setNodeLocation(nd, programPoint) ==
  IF nd.nodeId = 0 THEN [nd EXCEPT !.nodeId = programPoint] ELSE nd

SetCurrentINode(n, programPoint) ==
  /\ ~crashed
  /\ n \in live
  /\ IsLeaf(n)
  /\ currentINode' = n
  /\ itree' = [itree EXCEPT ![n] = setNodeLocation(itree[n], programPoint)]
  /\ last' = NoOp
  /\ UNCHANGED <<live, nextNode, frames, freed, valuesList, subsumptionTable,
                 crashed>>

(***************************************************************************)
(* PathCondition::setAsCore on a set of frames: each frame becomes core    *)
(* and Dependency::markAllValues flags the value its condition was         *)
(* computed from.                                                          *)
(***************************************************************************)
setAsCore(fr, marked) ==
  [f \in 1..Len(fr) |-> IF f \in marked THEN [fr[f] EXCEPT !.core = TRUE]
                        ELSE fr[f]]

markAllValues(vl, vs) ==
  [v \in 1..Len(vl) |-> IF v \in vs THEN [vl[v] EXCEPT !.inCore = TRUE]
                        ELSE vl[v]]

ConditionsOf(marked) ==
  {frames[f].condition : f \in marked} \ {NULL}

(***************************************************************************)
(* ITree::markPathCondition: one pass over the frames of the current node, *)
(* resumed for every clause of the unsat core where the previous clause    *)
(* matched.                                                                *)
(***************************************************************************)
RECURSIVE FindFrame(_, _)
FindFrame(pc, clause) ==
  IF pc = NULL THEN NULL
  ELSE IF frames[pc].constraint = clause THEN pc
  ELSE FindFrame(frames[pc].tail, clause)

RECURSIVE MarkScan(_, _, _)
MarkScan(unsatCore, i, pc) ==
  IF i > Len(unsatCore) \/ pc = NULL THEN {}
  ELSE LET f == FindFrame(pc, unsatCore[i])
       IN IF f = NULL THEN {}
          ELSE {f} \cup MarkScan(unsatCore, i + 1, frames[f].tail)

\* A clause of the solver's query that is no constraint of any path: the
\* condition of the branch the solver was asked about.
BranchCondition == EqExpr(ReadExpr(XArray), ConstantExpr(MaxVal))

\* The unsat cores a solver may return: constraints of the path and the
\* branch condition in some order, each at most once.
UnsatCores(n) ==
  LET cs == {PathConstraints(n)[i] : i \in 1..Len(PathConstraints(n))}
            \cup {BranchCondition}
  IN {<<>>} \cup {<<a>> : a \in cs}
     \cup {s \in cs \X cs : s[1] # s[2]}

MarkPathCondition(unsatCore, binst) ==
  /\ ~crashed
  /\ currentINode \in live
  /\ unsatCore \in UnsatCores(currentINode)
  /\ binst => /\ LatestStore(currentINode) # NULL
              /\ isRead(valuesList[LatestStore(currentINode)].expr)
  /\ LET marked == MarkScan(unsatCore, 1, itree[currentINode].pathCondition)
         vs == ConditionsOf(marked) \cup
               (IF binst THEN {LatestStore(currentINode)} ELSE {})
     IN /\ frames' = setAsCore(frames, marked)
        /\ valuesList' = markAllValues(valuesList, vs)
  /\ last' = NoOp
  /\ UNCHANGED <<itree, live, nextNode, freed, subsumptionTable, currentINode,
                 crashed>>

(***************************************************************************)
(* SubsumptionTableEntry::SubsumptionTableEntry.                           *)
(***************************************************************************)
\* Every frame of the list headed by pc, core or not.
EveryFrame(fr, pc) == Chain(pc)

\* The core frames of the list headed by pc, newest first.
CoreFrames(fr, pc) ==
  SelectSeq(Chain(pc), LAMBDA f : fr[f].core)

\* PathCondition::packInterpolant: every core frame contributes the shadow
\* of its constraint.  A frame is shadowed once; only then are the shadow
\* arrays of its constraint reported in replacements.
packInterpolant(fr, pc) ==
  LET cf == CoreFrames(fr, pc)
      fresh == {cf[i] : i \in {j \in 1..Len(cf) : ~fr[cf[j]].shadowed}}
  IN [res |-> [i \in 1..Len(cf) |-> getShadowExpression(fr[cf[i]].constraint)],
      replacements |->
        UNION {ShadowReplacements(fr[f].constraint) : f \in fresh},
      shadowedNow |-> fresh]

\* ITreeNode::getSingletonCoreExpressions: the latest value stored by the
\* parent's context chain, shadowed, if that value is in the interpolant.
getSingletonCoreExpressions(it, vl, n) ==
  LET v == LatestStore(it[n].parent)
  IN IF it[n].parent # NULL /\ v # NULL /\ vl[v].inCore
     THEN <<getShadowExpression(vl[v].expr)>>
     ELSE <<>>

\* ITreeNode::getSingletonExpressions: the latest value stored by the
\* parent's context chain, as it is.
getSingletonExpressions(n) ==
  LET v == LatestStore(itree[n].parent)
  IN IF itree[n].parent # NULL /\ v # NULL
     THEN <<valuesList[v].expr>>
     ELSE <<>>

SubsumptionTableEntry(fr, n) ==
  LET pk == packInterpolant(fr, itree[n].pathCondition)
      st == getSingletonCoreExpressions(itree, valuesList, n)
  IN [nodeId |-> itree[n].nodeId,
      interpolant |-> pk.res,
      singletonStore |-> st,
      existentials |->
        pk.replacements \cup
        (IF st = <<>> THEN {} ELSE ArraysOf(st[1]))]

(***************************************************************************)
(* ITreeNode::~ITreeNode: frames are deleted from the node's head until    *)
(* the parent's head is met.  When the end of the list is met first, the   *)
(* loop reads the tail of a null frame.                                    *)
(***************************************************************************)
RECURSIVE OwnedFrames(_, _)
OwnedFrames(it, itEnd) ==
  IF it = itEnd \/ it = NULL THEN {}
  ELSE {it} \cup OwnedFrames(frames[it].tail, itEnd)

RunsOffEnd(it, itEnd) == itEnd # NULL /\ itEnd \notin ChainSet(it)

itEndOf(n) ==
  IF itree[n].parent # NULL THEN itree[itree[n].parent].pathCondition
  ELSE NULL

(***************************************************************************)
(* ITree::remove.  st carries the objects the loop updates: the nodes, the *)
(* live set, the frames, the freed frames and the table.  nullOk says      *)
(* whether PathCondition::packInterpolant called on a null head comes back *)
(* with the null interpolant its loop computes, or faults.                 *)
(***************************************************************************)
storeInFront(table, e) == [table EXCEPT ![e.nodeId] = <<e>> \o @]

store(table, e) == [table EXCEPT ![e.nodeId] = Append(@, e)]

StoresAlways(nd) == TRUE

\* if (!node->isSubsumed) store(new SubsumptionTableEntry(node))
StoresEntry(nd) == ~nd.isSubsumed

UnlinkNothing(it, p, n) == it

Unlink(it, p, n) ==
  IF p = NULL THEN it
  ELSE IF it[p].left = n THEN [it EXCEPT ![p].left = NULL]
  ELSE [it EXCEPT ![p].right = NULL]

\* delete node: the destructor deletes the frames the node owns and the
\* node's dependency context with the values it holds.
Delete(st, node, owned) ==
  [st EXCEPT
     !.freed = @ \cup owned,
     !.frames = [f \in 1..Len(@) |-> IF f \in owned THEN NoFrame ELSE @[f]],
     !.values = [v \in 1..Len(@) |->
                   IF @[v].owner = node THEN NoValue ELSE @[v]],
     !.live = @ \ {node},
     !.itree = [@ EXCEPT ![node] = NoNode]]

RECURSIVE RemoveLoop(_, _, _)
RemoveLoop(node, st, nullOk) ==
  LET nd == itree[node]
      p == nd.parent
  IN IF StoresEntry(nd) /\ nd.pathCondition = NULL /\ ~nullOk
     THEN [st EXCEPT !.crashed = TRUE]
     ELSE
       LET pk == packInterpolant(st.frames, nd.pathCondition)
           st1 == IF ~StoresEntry(nd) THEN st
                  ELSE [st EXCEPT
                          !.table = store(@, SubsumptionTableEntry(st.frames, node)),
                          !.stored = Append(@, node),
                          !.frames = [f \in 1..Len(@) |->
                                        IF f \in pk.shadowedNow
                                        THEN [@[f] EXCEPT !.shadowed = TRUE]
                                        ELSE @[f]]]
           st2 == Delete(st1, node,
                         OwnedFrames(nd.pathCondition, itEndOf(node)))
       IN IF RunsOffEnd(nd.pathCondition, itEndOf(node))
          THEN [st2 EXCEPT !.crashed = TRUE]
          ELSE LET st3 == [st2 EXCEPT !.itree = Unlink(@, p, node)]
               IN IF p # NULL /\ st3.itree[p].left = NULL
                              /\ st3.itree[p].right = NULL
                  THEN RemoveLoop(p, st3, nullOk)
                  ELSE st3

Remove(node, nullOk) ==
  /\ ~crashed
  /\ node \in live
  /\ IsLeaf(node)                                       \* assert(!node->left && !node->right)
  /\ LET st == RemoveLoop(node,
                 [itree |-> itree, live |-> live, frames |-> frames,
                  freed |-> freed, values |-> valuesList,
                  table |-> subsumptionTable, stored |-> <<>>,
                  crashed |-> FALSE], nullOk)
     IN /\ itree' = st.itree
        /\ live' = st.live
        /\ frames' = st.frames
        /\ freed' = st.freed
        /\ valuesList' = st.values
        /\ subsumptionTable' = st.table
        /\ crashed' = st.crashed
        /\ last' = [NoOp EXCEPT
                      !.op = "remove", !.deleted = live \ st.live,
                      !.stored = Len(st.stored)]
  /\ UNCHANGED <<nextNode, currentINode>>

(***************************************************************************)
(* The existential simplifier on the queries this model builds: a          *)
(* conjunction of comparison atoms and at most one store equality.         *)
(***************************************************************************)
\* SubsumptionTableEntry::hasFree / hasExistentials on a conjunction.
hasFree(existentials, conj) ==
  \E i \in 1..Len(conj) : ArraysOf(conj[i]) \ existentials # {}

hasExistentials(existentials, conj) ==
  \E i \in 1..Len(conj) : ArraysOf(conj[i]) \cap existentials # {}

\* ApplySubstitutionVisitor on one atom: the kids equal to the substituted
\* variable are replaced and the atom is rebuilt with Expr::create.
ApplySubstitution(atom, variable, rhs) ==
  IF isConstant(atom) \/ variable \notin {atom[2], atom[3]} THEN atom
  ELSE CreateCmp(atom[1],
                 IF atom[2] = variable THEN rhs ELSE atom[2],
                 IF atom[3] = variable THEN rhs ELSE atom[3])

\* AndExpr::create over the rebuilt atoms: a false atom makes the
\* conjunction false, true atoms are dropped.
AndCreate(conj) ==
  IF \E i \in 1..Len(conj) : isFalse(conj[i]) THEN <<ConstantExpr(0)>>
  ELSE IF conj # <<>> /\ \A i \in 1..Len(conj) : isTrue(conj[i])
       THEN <<ConstantExpr(1)>>
  ELSE SelectSeq(conj, LAMBDA a : ~isTrue(a))

\* SubsumptionTableEntry::getSubstitution: an equality whose left side is a
\* variable becomes a substitution and leaves true behind.
getSubstitution(equalities) ==
  IF equalities # <<>> /\ isRead(equalities[1][2])
  THEN [map |-> <<equalities[1][2], equalities[1][3]>>,
        equalities |-> <<ConstantExpr(1)>>]
  ELSE [map |-> <<>>,
        equalities |-> IF equalities = <<>> THEN <<ConstantExpr(1)>>
                       ELSE equalities]

\* SubsumptionTableEntry::simplifyEqualityExpr on one equality.
simplifyEqualityExpr(equalities) ==
  IF isConstant(equalities[1]) THEN equalities
  ELSE IF isConstant(equalities[1][2]) /\ isConstant(equalities[1][3])
       THEN <<ConstantExpr(IF equalities[1][2] = equalities[1][3]
                           THEN 1 ELSE 0)>>
  ELSE equalities

\* SubsumptionTableEntry::simplifyArithmeticBody.  The result is a constant,
\* an ExistsExpr over a body with bound variables only, or an unquantified
\* conjunction; "fm" stands for the queries handed on to
\* simplifyWithFourierMotzkin.
simplifyArithmeticBody(existentials, interpolant, equalities) ==
  LET fullEqualityConstraint == simplifyEqualityExpr(equalities)
      constantQuery(c) ==
        [kind |-> "constant", body |-> c, hasExistentialsOnly |-> FALSE]
  IN IF isFalse(fullEqualityConstraint[1])
     THEN constantQuery(fullEqualityConstraint)
     ELSE IF isTrue(interpolant[1])
     THEN IF isConstant(fullEqualityConstraint[1])
          THEN constantQuery(fullEqualityConstraint)
          ELSE [kind |-> "plain", body |-> fullEqualityConstraint,
                hasExistentialsOnly |-> FALSE]
     ELSE IF isTrue(fullEqualityConstraint[1])
             /\ ~hasFree(existentials, interpolant)
     THEN [kind |-> "exists", body |-> interpolant,
           hasExistentialsOnly |-> TRUE]
     ELSE IF isTrue(fullEqualityConstraint[1])
             /\ ~isConstant(interpolant[1])
             /\ ~hasExistentials(existentials, interpolant)
     THEN [kind |-> "plain", body |-> interpolant,
           hasExistentialsOnly |-> FALSE]
     ELSE [kind |-> "fm", body |-> interpolant \o fullEqualityConstraint,
           hasExistentialsOnly |-> FALSE]

\* SubsumptionTableEntry::simplifyExistsExpr.
simplifyExistsExpr(existentials, interpolant, equalities) ==
  LET sub == getSubstitution(equalities)
      intp == IF interpolant = <<>> THEN <<ConstantExpr(1)>>
              ELSE IF sub.map = <<>> THEN interpolant
              ELSE AndCreate([i \in 1..Len(interpolant) |->
                     ApplySubstitution(interpolant[i], sub.map[1], sub.map[2])])
  IN simplifyArithmeticBody(existentials, intp, sub.equalities)

(***************************************************************************)
(* The solver: a sound oracle.  It may answer "True" only for a query that *)
(* is valid under the state's constraints and "False" only for one that is *)
(* not; it may always give up with "Unknown" or fail.                      *)
(***************************************************************************)
Answers == {"True", "False", "Unknown", "Failed"}
NotValidAnswers == Answers \ {"True"}

\* TimingSolver::evaluate(state, query) may answer Solver::True.
Valid(n, conj) ==
  \A env \in Envs : EvalConj(PathConstraints(n), env) => EvalConj(conj, env)

\* Z3Solver::getValue on the single constraint (Eq false body) succeeds only
\* with an assignment that makes the body false.
getValue(body) == \E env \in Envs : ~EvalConj(body, env)

(***************************************************************************)
(* SubsumptionTableEntry::subsumed for the state at node n.  answer is     *)
(* what the solver says if it is asked.  path names the return statement   *)
(* taken; solver says whether the solver was called.                       *)
(***************************************************************************)
empty(e) == e.interpolant = <<>> /\ e.singletonStore = <<>>

AnyAnswerValid(answer) == TRUE

\* if (success && result == Solver::True)
SolverDecidedValid(answer) == answer = "True"

BuildQuery(e, n) ==
  LET stateSingletonStore == getSingletonExpressions(n)
      stateEqualityConstraints ==
        IF e.singletonStore = <<>> \/ stateSingletonStore = <<>> THEN <<>>
        ELSE <<EqExpr(e.singletonStore[1], stateSingletonStore[1])>>
  IN IF e.existentials # {}
     THEN simplifyExistsExpr(e.existentials, e.interpolant,
                             stateEqualityConstraints)
     ELSE [kind |-> "plain",
           body |-> e.interpolant \o stateEqualityConstraints,
           hasExistentialsOnly |-> FALSE]

MayAnswerTrue(e, n) ==
  LET query == BuildQuery(e, n)
  IN IF query.hasExistentialsOnly THEN getValue(query.body)
     ELSE Valid(n, query.body)

\* A subsumption test with no quick check of the empty entry.
subsumedByQuery(e, n, answer) ==
  IF e.singletonStore # <<>> /\ getSingletonExpressions(n) = <<>>
  THEN [res |-> FALSE, path |-> "nokey", solver |-> FALSE]
  ELSE LET query == BuildQuery(e, n)
       IN IF query.kind = "constant"
          THEN [res |-> isTrue(query.body[1]), path |-> "constant",
                solver |-> FALSE]
          ELSE IF SolverDecidedValid(answer)
          THEN [res |-> TRUE,
                path |-> IF query.hasExistentialsOnly THEN "getValue"
                         ELSE "evaluate",
                solver |-> TRUE]
          ELSE [res |-> FALSE, path |-> "notvalid", solver |-> TRUE]

subsumed(e, n, answer) ==
  IF empty(e) THEN [res |-> TRUE, path |-> "empty", solver |-> FALSE]
  ELSE IF e.singletonStore # <<>> /\ getSingletonExpressions(n) = <<>>
  THEN [res |-> FALSE, path |-> "nokey", solver |-> FALSE]
  ELSE LET query == BuildQuery(e, n)
       IN IF query.kind = "constant"
          THEN [res |-> isTrue(query.body[1]), path |-> "constant",
                solver |-> FALSE]
          ELSE IF SolverDecidedValid(answer)
          THEN [res |-> TRUE,
                path |-> IF query.hasExistentialsOnly THEN "getValue"
                         ELSE "evaluate",
                solver |-> TRUE]
          ELSE [res |-> FALSE, path |-> "notvalid", solver |-> TRUE]

\* The queries of this model never reach simplifyWithFourierMotzkin.
NeedsFourierMotzkin(e, n) ==
  /\ ~empty(e)
  /\ ~(e.singletonStore # <<>> /\ getSingletonExpressions(n) = <<>>)
  /\ BuildQuery(e, n).kind = "fm"

\* ITreeNode::makeMarkerMap and the marking of an unsat core: a clause
\* marks the oldest frame of the state's list that carries it.
RECURSIVE OldestFrame(_, _)
OldestFrame(pc, clause) ==
  IF pc = NULL THEN NULL
  ELSE LET older == OldestFrame(frames[pc].tail, clause)
       IN IF older # NULL THEN older
          ELSE IF frames[pc].constraint = clause THEN pc
          ELSE NULL

\* A marking that gives up when a clause of the core has no marker.
makeMarkerMapOfAll(n, unsatCore) ==
  IF NULL \in {OldestFrame(itree[n].pathCondition, c) : c \in unsatCore}
  THEN {}
  ELSE {OldestFrame(itree[n].pathCondition, c) : c \in unsatCore}

makeMarkerMap(n, unsatCore) ==
  {OldestFrame(itree[n].pathCondition, c) : c \in unsatCore} \ {NULL}

(***************************************************************************)
(* ITree::checkCurrentStateSubsumption for a state at instruction inst.    *)
(* The solver answers notValid to the entries before entry firstTrue and   *)
(* "True" from there on wherever a sound solver may; unsatCore is the core *)
(* it reports for a valid query.                                           *)
(***************************************************************************)
SolverAnswer(e, n, j, firstTrue, notValid) ==
  IF j >= firstTrue /\ MayAnswerTrue(e, n) THEN "True" ELSE notValid

EntryResults(entryList, n, firstTrue, notValid) ==
  [j \in 1..Len(entryList) |->
     subsumed(entryList[j], n,
              SolverAnswer(entryList[j], n, j, firstTrue, notValid))]

\* The entry that subsumes: the first whose subsumed() returns true.
FirstSubsuming(results) ==
  IF \E j \in 1..Len(results) : results[j].res
  THEN CHOOSE j \in 1..Len(results) :
         results[j].res /\ \A i \in 1..(j - 1) : ~results[i].res
  ELSE 0

GateOpen(inst, n) == FALSE

\* The early returns of the check: the state is not at the instruction that
\* named its node, or the table has no entry under the node's id.
Gate(inst, n) ==
  inst # itree[n].nodeId \/ subsumptionTable[itree[n].nodeId] = <<>>

CheckCurrentStateSubsumption(inst, firstTrue, notValid, unsatCore) ==
  /\ ~crashed
  /\ currentINode \in live             \* state.itreeNode == currentINode
  /\ LET n == currentINode
         entryList == subsumptionTable[itree[n].nodeId]
         gated == Gate(inst, n)
         results == EntryResults(entryList, n, firstTrue, notValid)
         by == IF gated THEN 0 ELSE FirstSubsuming(results)
         examined == IF gated THEN 0
                     ELSE IF by = 0 THEN Len(entryList) ELSE by
         marked == IF by # 0 /\ results[by].path = "evaluate"
                   THEN makeMarkerMap(n, unsatCore) ELSE {}
     IN /\ ~gated => \A j \in 1..Len(entryList) :
                       ~NeedsFourierMotzkin(entryList[j], n)
        /\ itree' = IF by # 0 THEN [itree EXCEPT ![n].isSubsumed = TRUE]
                    ELSE itree
        /\ frames' = setAsCore(frames, marked)
        /\ valuesList' = markAllValues(valuesList, ConditionsOf(marked))
        /\ last' = [NoOp EXCEPT
                      !.op = "check", !.inst = inst, !.res = (by # 0),
                      !.by = by,
                      !.paths = [j \in 1..examined |-> results[j].path],
                      !.answers = [j \in 1..examined |->
                                     IF results[j].solver
                                     THEN SolverAnswer(entryList[j], n, j,
                                                       firstTrue, notValid)
                                     ELSE "none"],
                      !.calls = Cardinality({j \in 1..examined :
                                               results[j].solver}),
                      !.skipped =
                        /\ by # 0 /\ results[by].path = "evaluate"
                        /\ \E c \in unsatCore :
                             OldestFrame(itree[n].pathCondition, c) = NULL]
  /\ UNCHANGED <<live, nextNode, freed, subsumptionTable, currentINode,
                 crashed>>

\* What the solver may say during one check of the state at node n: which
\* entry it first answers "True" for, what it answers before, and the unsat
\* core it then reports.  "False" is an answer only to a query that is not
\* valid.
SolverRuns(n, inst) ==
  LET entryList == subsumptionTable[itree[n].nodeId]
      pcs == {PathConstraints(n)[i] : i \in 1..Len(PathConstraints(n))}
  IN IF inst # itree[n].nodeId \/ entryList = <<>>
     THEN {<<1, "Unknown", {}>>}
     ELSE {r \in (1..(Len(entryList) + 1)) \X NotValidAnswers
                  \X SUBSET (pcs \cup {BranchCondition}) :
             r[2] = "False" =>
               \A j \in 1..(r[1] - 1) : ~MayAnswerTrue(entryList[j], n)}

(***************************************************************************)
(* AllocationGraph.  Allocation objects are numbered 1..NumAllocations.    *)
(*   allNodes  the AllocationNode objects in creation order: allNodes[i]   *)
(*             is the allocation of node i                                 *)
(*   sinks     the sink list, a sequence of nodes                          *)
(*   parents   parents[i] is the parent list of node i, a sequence of      *)
(*             nodes                                                       *)
(*   sinksCapacity  the capacity of the vector behind the sink list        *)
(*   graphCrashed   a call on the graph faulted                            *)
(***************************************************************************)
NumAllocations == 3
MaxGraphNodes == 4  \* nodes after which a behaviour adds no edge

Allocations == 1..NumAllocations

VARIABLES allNodes, sinks, parents, sinksCapacity, graphCrashed

graphVars == <<allNodes, sinks, parents, sinksCapacity, graphCrashed>>

\* AllocationGraph::AllocationGraph: no node, no sink.
GraphInit ==
  /\ allNodes = <<>>
  /\ sinks = <<>>
  /\ parents = <<>>
  /\ sinksCapacity = 0
  /\ graphCrashed = FALSE

\* AllocationNode::isCurrentParent and AllocationNode::addParent.
isCurrentParent(parentList, node) ==
  \E k \in 1..Len(parentList) : parentList[k] = node

addParent(parentList, node) == Append(parentList, node)

\* std::vector::push_back on [items, capacity, moved]: a full vector moves
\* to a new buffer of twice the capacity, and every iterator into the old
\* one dangles.
push_back(v, x) ==
  IF Len(v.items) = v.capacity
  THEN [items |-> Append(v.items, x),
        capacity |-> IF v.capacity = 0 THEN 1 ELSE 2 * v.capacity,
        moved |-> TRUE]
  ELSE [v EXCEPT !.items = Append(@, x)]

\* The search loop of addNewEdge from node i on: a node is taken as the
\* target first, and as the source only when it is not taken as the target.
RECURSIVE FindNodes(_, _, _, _, _, _)
FindNodes(nodes, i, source, target, sourceNode, targetNode) ==
  IF i > Len(nodes) THEN <<sourceNode, targetNode>>
  ELSE IF targetNode = NULL /\ nodes[i] = target
       THEN IF sourceNode # NULL THEN <<sourceNode, i>>
            ELSE FindNodes(nodes, i + 1, source, target, sourceNode, i)
       ELSE IF sourceNode = NULL /\ nodes[i] = source
            THEN IF targetNode # NULL THEN <<i, targetNode>>
                 ELSE FindNodes(nodes, i + 1, source, target, i, targetNode)
            ELSE FindNodes(nodes, i + 1, source, target, sourceNode,
                           targetNode)

\* std::find and erase: the first occurrence of node leaves the list.
EraseFirst(list, node) ==
  LET hits == {i \in 1..Len(list) : list[i] = node}
  IN IF hits = {} THEN list
     ELSE LET pos == CHOOSE i \in hits : \A j \in hits : i <= j
          IN SubSeq(list, 1, pos - 1) \o SubSeq(list, pos + 1, Len(list))

\* AllocationGraph::addNewEdge on the graph g = [allNodes, sinks, parents,
\* sinksCapacity]: the graph afterwards and the value returned.
EdgeAdded(g, source, target) ==
  LET found == FindNodes(g.allNodes, 1, source, target, NULL, NULL)
      newSource == found[1] = NULL
      nodes1 == IF newSource THEN Append(g.allNodes, source) ELSE g.allNodes
      parents1 == IF newSource THEN Append(g.parents, <<>>) ELSE g.parents
      sourceNode == IF newSource THEN Len(nodes1) ELSE found[1]
      newTarget == found[2] = NULL
      nodes2 == IF newTarget THEN Append(nodes1, target) ELSE nodes1
      parents2 == IF newTarget THEN Append(parents1, <<>>) ELSE parents1
      targetNode == IF newTarget THEN Len(nodes2) ELSE found[2]
      ret == newSource \/ newTarget
      pushed == push_back([items |-> g.sinks, capacity |-> g.sinksCapacity,
                           moved |-> FALSE], targetNode)
  IN [allNodes |-> nodes2,
      sinks |-> IF newTarget
                THEN EraseFirst(pushed.items, sourceNode)
                ELSE g.sinks,
      sinksCapacity |-> IF newTarget THEN pushed.capacity
                        ELSE g.sinksCapacity,
      parents |-> IF ret \/ ~isCurrentParent(parents2[targetNode], sourceNode)
                  THEN [parents2 EXCEPT
                          ![targetNode] = addParent(@, sourceNode)]
                  ELSE parents2,
      ret |-> ret]

\* The graph of the state.
Graph ==
  [allNodes |-> allNodes, sinks |-> sinks, parents |-> parents,
   sinksCapacity |-> sinksCapacity]

\* AllocationGraph::addNewEdge.
addNewEdge(source, target) ==
  LET g == EdgeAdded(Graph, source, target)
  IN /\ ~graphCrashed
     /\ allNodes' = g.allNodes
     /\ sinks' = g.sinks
     /\ sinksCapacity' = g.sinksCapacity
     /\ graphCrashed' = graphCrashed
     /\ parents' = g.parents

\* The positions of a sink list, and 0 for none.
SinkRange == 0..(MaxGraphNodes + 1)

\* The first loop of consumeSinkNode: the positions of the sink list whose
\* node is of the allocation; pos is set to the first.
SinkPositions(allocation) ==
  {i \in 1..Len(sinks) : allNodes[sinks[i]] = allocation}

\* The second loop: every parent that std::find does not find in the sink
\* list is pushed to it.
RECURSIVE PushParents(_, _, _)
PushParents(v, parentList, k) ==
  IF k > Len(parentList) THEN v
  ELSE PushParents(
         IF \E i \in 1..Len(v.items) : v.items[i] = parentList[k] THEN v
         ELSE push_back(v, parentList[k]),
         parentList, k + 1)

erase(list, pos) == SubSeq(list, 1, pos - 1) \o SubSeq(list, pos + 1, Len(list))

\* AllocationGraph::consumeSinkNode.  pos is the position the iterator pos
\* holds after the first loop: the first sink of the allocation, or, when
\* there is none, whatever the uninitialized iterator holds, position 0
\* standing for an address that cannot be read.  erased is the element
\* sinks.erase(pos) takes out when pos dangles after a push_back has moved
\* the vector, 0 standing for a fault.
consumeSinkNode(allocation, pos, erased) ==
  /\ ~graphCrashed
  /\ IF SinkPositions(allocation) # {}
     THEN pos = CHOOSE i \in SinkPositions(allocation) :
                  \A j \in SinkPositions(allocation) : i <= j
     ELSE pos \in 0..Len(sinks)
  /\ IF pos = 0
     THEN /\ graphCrashed' = TRUE
          /\ UNCHANGED <<sinks, sinksCapacity>>
     ELSE LET pushed == PushParents([items |-> sinks,
                                     capacity |-> sinksCapacity,
                                     moved |-> FALSE],
                                    parents[sinks[pos]], 1)
          IN /\ sinksCapacity' = pushed.capacity
             /\ IF ~pushed.moved
                THEN /\ erased = pos
                     /\ sinks' = erase(pushed.items, pos)
                     /\ graphCrashed' = FALSE
                ELSE /\ erased \in 0..Len(pushed.items)
                     /\ sinks' = IF erased = 0 THEN pushed.items
                                 ELSE erase(pushed.items, erased)
                     /\ graphCrashed' = (erased = 0)
  /\ UNCHANGED <<allNodes, parents>>

(***************************************************************************)
(* Dependency.  dependency is the chain of contexts from the root context  *)
(* (index 1) to the current one (the last); the parent of context d is     *)
(* context d - 1.  Every context holds its locally constructed lists.  A   *)
(* VersionedValue is [id, value] with value the LLVM value it is a version *)
(* of; an Allocation is [id, site, composite]; ids number the objects of   *)
(* the chain in creation order and stand for their addresses.  The         *)
(* symbolic expression of a value plays no role in the relations and is    *)
(* left out.                                                               *)
(*   numExecuted   instructions executed so far                            *)
(*   lastExecuted  the instruction executed last and the values made for   *)
(*                 it                                                      *)
(*   inInterpolant the VersionedValues whose valueInInterpolant flag is    *)
(*                 set                                                     *)
(*   fatal         an assertion of Dependency failed and the process was   *)
(*                 aborted                                                 *)
(*   argumentValuesList  the work list of bindCallArguments                *)
(***************************************************************************)
MaxDepth == 2       \* contexts on the chain
MaxExecuted == 5    \* instructions one behaviour executes

VARIABLES dependency, numExecuted, lastExecuted, inInterpolant, fatal,
          argumentValuesList

depVars == <<dependency, numExecuted, lastExecuted, inInterpolant, fatal,
             argumentValuesList>>

\* The LLVM values of the program: two allocas, a cast of the first, two
\* constants that are stored, and a load through every pointer.
DataSites == {"d1", "d2"}
PointerSites == {"a", "p", "c"}
LoadSite == [a |-> "ta", p |-> "tp", c |-> "tc"]
PointsTo == [a |-> "a", p |-> "a", c |-> "c"]

Program ==
  {[opcode |-> "Alloca", value |-> s, op0 |-> "none", op1 |-> "none"] :
     s \in {"a", "c"}}
  \cup {[opcode |-> "BitCast", value |-> "p", op0 |-> "a", op1 |-> "none"]}
  \cup {[opcode |-> "Store", value |-> "none", op0 |-> d, op1 |-> ptr] :
          d \in DataSites, ptr \in PointerSites}
  \cup {[opcode |-> "Load", value |-> LoadSite[ptr], op0 |-> ptr,
         op1 |-> "none"] : ptr \in PointerSites}

\* Additions: s of two loaded values, u of s and a loaded value or a
\* constant.
ArithmeticProgram ==
  {[opcode |-> "Add", value |-> "s", op0 |-> l, op1 |-> r] :
     l \in {"ta"}, r \in {"ta", "tc"}}
  \cup {[opcode |-> "Add", value |-> "u", op0 |-> "s", op1 |-> r] :
          r \in {"ta", "d1"}}

\* The value loaded from the composite is stored in the other alloca and
\* the value loaded from there in the composite.
MaxCopied == 7      \* instructions a behaviour of the copying program executes

CopyProgram ==
  {[opcode |-> "Alloca", value |-> s, op0 |-> "none", op1 |-> "none"] :
     s \in {"a", "c"}}
  \cup {[opcode |-> "Load", value |-> LoadSite[ptr], op0 |-> ptr,
         op1 |-> "none"] : ptr \in {"a", "c"}}
  \cup {[opcode |-> "Store", value |-> "none", op0 |-> LoadSite.c,
         op1 |-> "a"],
        [opcode |-> "Store", value |-> "none", op0 |-> LoadSite.a,
         op1 |-> "c"]}

\* The calls of a function of two formals and its returns to the call
\* site r.
Formals == <<"f1", "f2">>
Actuals == {"ta", "d1"}
CallSites == {<<x, y>> : x \in Actuals, y \in Actuals}
ReturnValues == {"f1", "ta"}

\* A store and a load through the value loaded from the first alloca.
LoadedPointerProgram ==
  {[opcode |-> "Store", value |-> "none", op0 |-> d, op1 |-> LoadSite.a] :
     d \in DataSites}
  \cup {[opcode |-> "Load", value |-> "tt", op0 |-> LoadSite.a,
         op1 |-> "none"]}

NoInstruction ==
  [opcode |-> "none", op0 |-> "none", op1 |-> "none", values |-> {}]

\* Dependency::Util::isCompositeAllocation: an alloca of a composite type,
\* or a value of pointer type that is no alloca.
isCompositeAllocation(site) == site \in {"c", "p"}

\* Dependency::Dependency: empty local lists.
Dependency ==
  [valuesList |-> <<>>, allocationsList |-> <<>>, equalityList |-> <<>>,
   storesList |-> <<>>, flowsToList |-> <<>>]

DepInit ==
  /\ dependency = <<Dependency>>
  /\ numExecuted = 0
  /\ lastExecuted = NoInstruction
  /\ inInterpolant = {}
  /\ fatal = FALSE
  /\ argumentValuesList = <<>>

\* The objects of a chain in creation order.
RECURSIVE AllValues(_)
AllValues(dep) ==
  IF dep = <<>> THEN <<>>
  ELSE AllValues(SubSeq(dep, 1, Len(dep) - 1)) \o dep[Len(dep)].valuesList

RECURSIVE AllAllocations(_)
AllAllocations(dep) ==
  IF dep = <<>> THEN <<>>
  ELSE AllAllocations(SubSeq(dep, 1, Len(dep) - 1))
         \o dep[Len(dep)].allocationsList

\* The pointers the next new VersionedValue and the next new Allocation get.
NewValue(dep) == Len(AllValues(dep)) + 1

NewAllocation(dep) == Len(AllAllocations(dep)) + 1

\* An isComposite that takes every allocation for a versioned one.
isVersioned(dep, allocation) == FALSE

\* Allocation::isComposite.
isComposite(dep, allocation) == AllAllocations(dep)[allocation].composite

\* Dependency::getNewVersionedValue, in the current context.
getNewVersionedValue(dep, value) ==
  [dep EXCEPT ![Len(dep)].valuesList =
     Append(@, [id |-> NewValue(dep), value |-> value])]

\* Dependency::getInitialAllocation, in the current context.
getInitialAllocation(dep, site) ==
  [dep EXCEPT ![Len(dep)].allocationsList =
     Append(@, [id |-> NewAllocation(dep), site |-> site,
                composite |-> isCompositeAllocation(site)])]

\* Dependency::getLatestValue of context d: the newest local version, else
\* the parent's.
RECURSIVE getLatestValue(_, _, _)
getLatestValue(dep, d, value) ==
  LET vl == dep[d].valuesList
      hits == {i \in 1..Len(vl) : vl[i].value = value}
  IN IF hits # {}
     THEN vl[CHOOSE i \in hits : \A j \in hits : j <= i].id
     ELSE IF d > 1 THEN getLatestValue(dep, d - 1, value) ELSE NULL

\* Dependency::getLatestAllocation of context d.
RECURSIVE getLatestAllocation(_, _, _)
getLatestAllocation(dep, d, site) ==
  LET al == dep[d].allocationsList
      hits == {i \in 1..Len(al) : al[i].site = site}
  IN IF hits # {}
     THEN al[CHOOSE i \in hits : \A j \in hits : j <= i].id
     ELSE IF d > 1 THEN getLatestAllocation(dep, d - 1, site) ELSE NULL

\* Dependency::resolveAllocation of context d.
RECURSIVE resolveAllocation(_, _, _)
resolveAllocation(dep, d, val) ==
  IF val = NULL THEN NULL
  ELSE LET el == dep[d].equalityList
           hits == {i \in 1..Len(el) : el[i].value = val}
       IN IF hits # {}
          THEN el[CHOOSE i \in hits : \A j \in hits : j <= i].allocation
          ELSE IF d > 1 THEN resolveAllocation(dep, d - 1, val) ELSE NULL

\* Dependency::directLocalFlowSources.
directLocalFlowSources(context, target) ==
  LET IsTarget(f) == f.target = target
      flows == SelectSeq(context.flowsToList, IsTarget)
  IN [i \in 1..Len(flows) |-> flows[i].source]

\* Dependency::directFlowSources of context d: the ancestors' first.
RECURSIVE directFlowSources(_, _, _)
directFlowSources(dep, d, target) ==
  (IF d > 1 THEN directFlowSources(dep, d - 1, target) ELSE <<>>)
    \o directLocalFlowSources(dep[d], target)

\* Dependency::allFlowSourcesEnds of context d, as the set of its elements.
RECURSIVE allFlowSourcesEnds(_, _, _)
allFlowSourcesEnds(dep, d, target) ==
  LET stepSources == directFlowSources(dep, d, target)
  IN IF stepSources = <<>> THEN {target}
     ELSE UNION {allFlowSourcesEnds(dep, d, stepSources[i]) :
                   i \in 1..Len(stepSources)}

\* std::sort of a vector of pointers.
RECURSIVE Sorted(_)
Sorted(S) ==
  IF S = {} THEN <<>>
  ELSE LET least == CHOOSE x \in S : \A y \in S : x <= y
       IN <<least>> \o Sorted(S \ {least})

\* std::sort of a vector that may hold a pointer several times.
RECURSIVE SortedVector(_)
SortedVector(vector) ==
  IF vector = <<>> THEN <<>>
  ELSE LET least == CHOOSE i \in 1..Len(vector) :
                      \A j \in 1..Len(vector) : vector[i] <= vector[j]
       IN <<vector[least]>>
          \o SortedVector(SubSeq(vector, 1, least - 1)
                          \o SubSeq(vector, least + 1, Len(vector)))

\* std::unique on a sorted vector of pointers, its result not used to
\* erase: the distinct elements are moved to the front and the vector
\* keeps its length, the elements behind them being the ones the sorted
\* vector had there.
unique(vector) ==
  LET distinct == Sorted({vector[i] : i \in 1..Len(vector)})
  IN distinct \o SubSeq(vector, Len(distinct) + 1, Len(vector))

\* The vectors spliced to the front of ret one after the other.
RECURSIVE InsertedAtBegin(_, _)
InsertedAtBegin(vectors, ret) ==
  IF vectors = <<>> THEN ret
  ELSE InsertedAtBegin(Tail(vectors), Head(vectors) \o ret)

\* Dependency::allFlowSources of context d, the vector it returns.
RECURSIVE allFlowSourcesVector(_, _, _)
allFlowSourcesVector(dep, d, target) ==
  LET stepSources == directFlowSources(dep, d, target)
      ret == InsertedAtBegin(
               [i \in 1..Len(stepSources) |->
                  allFlowSourcesVector(dep, d, stepSources[i])],
               stepSources)
  IN unique(SortedVector(Append(ret, target)))

\* Dependency::allFlowSourcesEnds of context d, the vector it returns.
RECURSIVE allFlowSourcesEndsVector(_, _, _)
allFlowSourcesEndsVector(dep, d, target) ==
  LET stepSources == directFlowSources(dep, d, target)
  IN IF stepSources = <<>> THEN <<target>>
     ELSE unique(SortedVector(
            InsertedAtBegin(
              [i \in 1..Len(stepSources) |->
                 allFlowSourcesEndsVector(dep, d, stepSources[i])],
              <<>>)))

\* Dependency::resolveAllocationTransitively of context d.
resolveAllocationTransitively(dep, d, value) ==
  LET singleRet == resolveAllocation(dep, d, value)
      valueSources == Sorted(allFlowSourcesEnds(dep, d, value))
      resolved == [i \in 1..Len(valueSources) |->
                     resolveAllocation(dep, d, valueSources[i])]
      Found(a) == a # NULL
  IN IF singleRet # NULL THEN <<singleRet>> ELSE SelectSeq(resolved, Found)

\* An addDependency that records the edge from the target to the source.
addDependencyBack(dep, source, target) ==
  [dep EXCEPT ![Len(dep)].flowsToList =
     Append(@, [source |-> target, target |-> source, via |-> NULL])]

\* An updateStore that keeps one cell for an allocation.
updateStoreReplacing(dep, allocation, value) ==
  LET Other(cell) == cell.allocation # allocation
  IN [dep EXCEPT ![Len(dep)].storesList =
        Append(SelectSeq(@, Other),
               [allocation |-> allocation, value |-> value])]

\* Dependency::addPointerEquality, updateStore, addDependency and
\* addDependencyViaAllocation, in the current context.
addPointerEquality(dep, value, allocation) ==
  [dep EXCEPT ![Len(dep)].equalityList =
     Append(@, [value |-> value, allocation |-> allocation])]

updateStore(dep, allocation, value) ==
  [dep EXCEPT ![Len(dep)].storesList =
     Append(@, [allocation |-> allocation, value |-> value])]

addDependency(dep, source, target) ==
  [dep EXCEPT ![Len(dep)].flowsToList =
     Append(@, [source |-> source, target |-> target, via |-> NULL])]

addDependencyViaAllocation(dep, source, target, via) ==
  [dep EXCEPT ![Len(dep)].flowsToList =
     Append(@, [source |-> source, target |-> target, via |-> via])]

\* StorageCell::stores over the cells of one context: the values of the
\* cells of the allocation, in list order.
LocalStores(context, allocation) ==
  LET IsCell(c) == c.allocation = allocation
      cells == SelectSeq(context.storesList, IsCell)
  IN [i \in 1..Len(cells) |-> cells[i].value]

\* A stores that forgets the ancestors' cells.
storesLocally(dep, d, allocation) ==
  LET local == LocalStores(dep[d], allocation)
  IN IF isComposite(dep, allocation) THEN local
     ELSE IF local # <<>> THEN <<local[1]>> ELSE <<>>

\* Dependency::stores of context d.
RECURSIVE stores(_, _, _)
stores(dep, d, allocation) ==
  LET local == LocalStores(dep[d], allocation)
  IN IF isComposite(dep, allocation)
     THEN (IF d > 1 THEN stores(dep, d - 1, allocation) ELSE <<>>) \o local
     ELSE IF local # <<>> THEN <<local[1]>>
          ELSE IF d > 1 THEN stores(dep, d - 1, allocation) ELSE <<>>

\* Dependency::buildLoadDependency, the loop over the allocations alloc2
\* that a stored value resolves to.
RECURSIVE LoadEqualities(_, _, _, _)
LoadEqualities(dep, alloc2, k, toValue) ==
  IF k > Len(alloc2) THEN dep
  ELSE LoadEqualities(
         addPointerEquality(getNewVersionedValue(dep, toValue),
                            NewValue(dep), alloc2[k]),
         alloc2, k + 1, toValue)

\* Dependency::buildLoadDependency, the loop over the values valList
\* stored in one allocation.
RECURSIVE LoadValues(_, _, _, _, _)
LoadValues(dep, valList, j, via, toValue) ==
  IF j > Len(valList) THEN dep
  ELSE LET alloc2 == resolveAllocationTransitively(dep, Len(dep), valList[j])
       IN LoadValues(
            IF alloc2 # <<>>
            THEN LoadEqualities(dep, alloc2, 1, toValue)
            ELSE addDependencyViaAllocation(
                   getNewVersionedValue(dep, toValue),
                   valList[j], NewValue(dep), via),
            valList, j + 1, via, toValue)

\* Dependency::buildLoadDependency, the loop over the allocations
\* allocList of the address: where nothing is stored, a new value is.
RECURSIVE LoadAllocations(_, _, _, _)
LoadAllocations(dep, allocList, i, toValue) ==
  IF i > Len(allocList) THEN dep
  ELSE LET valList == stores(dep, Len(dep), allocList[i])
       IN LoadAllocations(
            IF valList # <<>>
            THEN LoadValues(dep, valList, 1, allocList[i], toValue)
            ELSE updateStore(getNewVersionedValue(dep, toValue),
                             allocList[i], NewValue(dep)),
            allocList, i + 1, toValue)

\* Dependency::buildLoadDependency: whether the address has a version, and
\* the chain afterwards.
buildLoadDependency(dep, fromValue, toValue) ==
  LET arg == getLatestValue(dep, Len(dep), fromValue)
      allocList == resolveAllocationTransitively(dep, Len(dep), arg)
  IN IF arg = NULL THEN [found |-> FALSE, dep |-> dep]
     ELSE [found |-> TRUE,
           dep |-> LoadAllocations(dep, allocList, 1, toValue)]

\* Dependency::execute, Store: the loop over the allocations of the
\* address.  A singleton allocation gets a new version and the address a
\* new versioned value equal to it; a composite one is kept.
RECURSIVE StoreAddresses(_, _, _, _)
StoreAddresses(dep, addressList, i, dataArg) ==
  IF i > Len(addressList) THEN dep
  ELSE LET site == AllAllocations(dep)[addressList[i]].site
           latest == getLatestAllocation(dep, Len(dep), site)
           renew == latest = NULL \/ ~isComposite(dep, latest)
           allocation == IF renew THEN NewAllocation(dep) ELSE latest
           dep1 == IF renew
                   THEN addPointerEquality(
                          getNewVersionedValue(
                            getInitialAllocation(dep, site), site),
                          NewValue(dep), NewAllocation(dep))
                   ELSE dep
       IN StoreAddresses(updateStore(dep1, allocation, dataArg),
                         addressList, i + 1, dataArg)

\* Dependency::execute on the chain dep, by opcode.
Executed(dep, i) ==
  LET d == Len(dep)
  IN CASE i.opcode = "Alloca" ->
            addPointerEquality(
              getNewVersionedValue(getInitialAllocation(dep, i.value),
                                   i.value),
              NewValue(dep), NewAllocation(dep))
       [] i.opcode = "Load" ->
            LET built == buildLoadDependency(dep, i.op0, i.value)
            IN IF built.found THEN built.dep
               ELSE updateStore(
                      getNewVersionedValue(
                        getInitialAllocation(dep, i.op0), i.value),
                      NewAllocation(dep), NewValue(dep))
       [] i.opcode = "Store" ->
            LET found == getLatestValue(dep, d, i.op0)
                addressList ==
                  resolveAllocationTransitively(
                    dep, d, getLatestValue(dep, d, i.op1))
                dataArg == IF found = NULL THEN NewValue(dep) ELSE found
                dep1 == IF found = NULL
                        THEN getNewVersionedValue(dep, i.op0)
                        ELSE dep
            IN StoreAddresses(dep1, addressList, 1, dataArg)
       [] i.opcode = "BitCast" ->
            LET val == getLatestValue(dep, d, i.op0)
            IN IF val # NULL
               THEN addDependency(getNewVersionedValue(dep, i.value),
                                  val, NewValue(dep))
               ELSE dep
       [] i.opcode = "Add" ->
            LET lhs == getLatestValue(dep, d, i.op0)
                rhs == getLatestValue(dep, d, i.op1)
                dep1 == IF lhs # NULL
                        THEN addDependency(getNewVersionedValue(dep, i.value),
                                           lhs, NewValue(dep))
                        ELSE dep
            IN IF rhs = NULL THEN dep1
               ELSE IF lhs # NULL
               THEN addDependency(dep1, rhs, NewValue(dep))
               ELSE addDependency(getNewVersionedValue(dep, i.value),
                                  rhs, NewValue(dep))

\* Dependency::buildLoadDependency, assert(!"operand is not an
\* allocation"): the address of a load has a version and resolves to no
\* allocation.
AssertionFails(dep, i) ==
  /\ i.opcode = "Load"
  /\ getLatestValue(dep, Len(dep), i.op0) # NULL
  /\ resolveAllocationTransitively(
       dep, Len(dep), getLatestValue(dep, Len(dep), i.op0)) = <<>>

\* The operands of an instruction that are instructions have been
\* executed before it, and an alloca or a cast is executed once.
Dominated(i) ==
  LET d == Len(dependency)
  IN CASE i.opcode = "Alloca" -> getLatestValue(dependency, d, i.value) = NULL
       [] i.opcode = "BitCast" ->
            /\ getLatestValue(dependency, d, i.op0) # NULL
            /\ getLatestValue(dependency, d, i.value) = NULL
       [] i.opcode = "Load" -> getLatestValue(dependency, d, i.op0) # NULL
       [] i.opcode = "Store" ->
            /\ getLatestValue(dependency, d, i.op1) # NULL
            /\ i.op0 \notin DataSites =>
                 getLatestValue(dependency, d, i.op0) # NULL
       [] i.opcode = "Add" ->
            /\ \A op \in {i.op0, i.op1} \ DataSites :
                 getLatestValue(dependency, d, op) # NULL
            /\ getLatestValue(dependency, d, i.value) = NULL

\* Dependency::execute of the current context, while fewer than bound
\* instructions have been executed.
ExecuteWithin(i, bound) ==
  /\ ~fatal
  /\ numExecuted < bound
  /\ Dominated(i)
  /\ fatal' = AssertionFails(dependency, i)
  /\ dependency' = Executed(dependency, i)
  /\ numExecuted' = numExecuted + 1
  /\ lastExecuted' =
       [opcode |-> i.opcode, op0 |-> i.op0, op1 |-> i.op1,
        values |-> {v.id : v \in
                      {AllValues(dependency')[k] :
                         k \in 1..Len(AllValues(dependency'))} \
                      {AllValues(dependency)[k] :
                         k \in 1..Len(AllValues(dependency))}}]
  /\ UNCHANGED <<inInterpolant, argumentValuesList>>

execute(i) == ExecuteWithin(i, MaxExecuted)

\* VersionedValue::getExpression: the expression a value was made with,
\* for a value made by execute the expression of its instruction.
ValueExpr(value) == <<"expr", value>>

getExpression(v) == IF "expr" \in DOMAIN v THEN v.expr ELSE ValueExpr(v.value)

\* Dependency::getNewVersionedValue with an expression that is not the
\* one of the value's instruction.
getNewVersionedValueOf(dep, value, valueExpr) ==
  [dep EXCEPT ![Len(dep)].valuesList =
     Append(@, [id |-> NewValue(dep), value |-> value, expr |-> valueExpr])]

\* Dependency::populateArgumentValuesList, from argument i down to the
\* first: the latest value of the actual, or a new VersionedValue that is
\* in no list, numbered below zero.
RECURSIVE populateArgumentValuesList(_, _, _)
populateArgumentValuesList(dep, actuals, i) ==
  IF i = 0 THEN <<>>
  ELSE LET latestValue == getLatestValue(dep, Len(dep), actuals[i])
       IN <<IF latestValue # NULL
            THEN [id |-> latestValue,
                  expr |-> getExpression(AllValues(dep)[latestValue])]
            ELSE [id |-> 0 - (NewValue(dep) + i),
                  expr |-> ValueExpr(actuals[i])]>>
          \o populateArgumentValuesList(dep, actuals, i - 1)

\* A loop over the formals that takes the front of the work list.
RECURSIVE BindFormalsFromFront(_, _, _)
BindFormalsFromFront(dep, list, k) ==
  IF k > Len(Formals) THEN [dep |-> dep, list |-> list]
  ELSE BindFormalsFromFront(
         addDependency(
           getNewVersionedValueOf(dep, Formals[k], list[1].expr),
           list[1].id, NewValue(dep)),
         Tail(list), k + 1)

\* Dependency::bindCallArguments, the loop over the formals: the back of
\* the work list flows to a new value of the formal and is popped.
RECURSIVE BindFormals(_, _, _)
BindFormals(dep, list, k) ==
  IF k > Len(Formals) THEN [dep |-> dep, list |-> list]
  ELSE BindFormals(
         addDependency(
           getNewVersionedValueOf(dep, Formals[k], list[Len(list)].expr),
           list[Len(list)].id, NewValue(dep)),
         SubSeq(list, 1, Len(list) - 1), k + 1)

NewIds(before, after) ==
  (Len(AllValues(before)) + 1)..Len(AllValues(after))

\* Dependency::bindCallArguments of the current context.
bindCallArguments(actuals) ==
  /\ ~fatal
  /\ numExecuted < MaxExecuted
  /\ \A op \in {actuals[1], actuals[2]} \ DataSites :
       getLatestValue(dependency, Len(dependency), op) # NULL
  /\ LET bound == BindFormals(
                    dependency,
                    populateArgumentValuesList(dependency, actuals,
                                               Len(Formals)), 1)
     IN /\ dependency' = bound.dep
        /\ argumentValuesList' = bound.list
  /\ numExecuted' = numExecuted + 1
  /\ lastExecuted' = [opcode |-> "Call", op0 |-> actuals[1],
                      op1 |-> actuals[2],
                      values |-> NewIds(dependency, dependency')]
  /\ UNCHANGED <<inInterpolant, fatal>>

\* Dependency::bindReturnValue of the current context, for the call site r
\* and a return of returnValue.
bindReturnValue(returnValue) ==
  /\ ~fatal
  /\ numExecuted < MaxExecuted
  /\ LET value == getLatestValue(dependency, Len(dependency), returnValue)
     IN dependency' =
          IF value # NULL
          THEN addDependency(getNewVersionedValue(dependency, "r"),
                             value, NewValue(dependency))
          ELSE dependency
  /\ numExecuted' = numExecuted + 1
  /\ lastExecuted' = [opcode |-> "Ret", op0 |-> returnValue, op1 |-> "none",
                      values |-> NewIds(dependency, dependency')]
  /\ UNCHANGED <<inInterpolant, fatal, argumentValuesList>>

\* A node of the tree is made: its context is chained to its parent's.
NewContext ==
  /\ ~fatal
  /\ Len(dependency) < MaxDepth
  /\ dependency' = Append(dependency, Dependency)
  /\ lastExecuted' = NoInstruction
  /\ UNCHANGED <<numExecuted, inInterpolant, fatal, argumentValuesList>>

\* std::map::insert of a range: a key that is present keeps its value.
Inserted(map, extra) ==
  [k \in DOMAIN map \cup DOMAIN extra |->
     IF k \in DOMAIN map THEN map[k] ELSE extra[k]]

\* The keys of a std::map in the order of its iteration.
Keys(map) == Sorted(DOMAIN map)

\* StorageCell::storageOf.
storageOf(cell, value) ==
  IF cell.value = value THEN cell.allocation ELSE NULL

\* Dependency::directLocalAllocationSources: the loop over the flow edges
\* from edge i on, and the search of the store cells when it leaves the
\* map empty.  The map pairs a source value, or NULL, with the allocation
\* it flows through, or NULL.
RECURSIVE LocalAllocationSources(_, _, _, _)
LocalAllocationSources(context, target, i, ret) ==
  LET flows == context.flowsToList
      cells == {k \in 1..Len(context.storesList) :
                  storageOf(context.storesList[k], target) # NULL}
  IN IF i > Len(flows)
     THEN IF DOMAIN ret # {} \/ cells = {} THEN ret
          ELSE Put(ret, NULL,
                   storageOf(context.storesList[
                               CHOOSE k \in cells : \A j \in cells : k <= j],
                             target))
     ELSE IF flows[i].target # target
     THEN LocalAllocationSources(context, target, i + 1, ret)
     ELSE IF flows[i].via # NULL
     THEN LocalAllocationSources(context, target, i + 1,
                                 Put(ret, flows[i].source, flows[i].via))
     ELSE With(LocalAllocationSources(context, flows[i].source, 1, <<>>),
               LAMBDA extra :
                 LocalAllocationSources(
                   context, target, i + 1,
                   IF DOMAIN extra # {} THEN Inserted(ret, extra)
                   ELSE Put(ret, flows[i].source, NULL)))

directLocalAllocationSources(context, target) ==
  LocalAllocationSources(context, target, 1, <<>>)

\* Dependency::directAllocationSources of context d: the entries without
\* an allocation are erased, and for those with a source value the
\* parent's sources of that value are inserted instead.
RECURSIVE directAllocationSources(_, _, _)
RECURSIVE AncestralSources(_, _, _, _, _)
AncestralSources(dep, d, ret, keys, tmp) ==
  IF keys = <<>> THEN tmp
  ELSE AncestralSources(
         dep, d, ret, Tail(keys),
         IF ret[Head(keys)] = NULL /\ d > 1 /\ Head(keys) # NULL
         THEN Inserted(tmp, directAllocationSources(dep, d - 1, Head(keys)))
         ELSE tmp)

directAllocationSources(dep, d, target) ==
  With(directLocalAllocationSources(dep[d], target),
       LAMBDA ret :
         IF DOMAIN ret = {} /\ d > 1
         THEN directAllocationSources(dep, d - 1, target)
         ELSE LET kept == {k \in DOMAIN ret : ret[k] # NULL}
              IN Inserted([k \in kept |-> ret[k]],
                          AncestralSources(dep, d, ret, Keys(ret), <<>>)))

\* Dependency::buildAllocationGraph, the loop over the source allocations
\* of one source edge from the k-th on: acc is [g, newSourceAdded].
RECURSIVE SourceEdgesAdded(_, _, _, _)
SourceEdgesAdded(acc, sourceAllocations, k, allocation) ==
  IF k > Len(sourceAllocations) THEN acc
  ELSE SourceEdgesAdded(
         IF sourceAllocations[k] = allocation THEN acc
         ELSE With(EdgeAdded(acc.g, sourceAllocations[k], allocation),
                   LAMBDA e :
                     [g |-> [allNodes |-> e.allNodes, sinks |-> e.sinks,
                             parents |-> e.parents,
                             sinksCapacity |-> e.sinksCapacity],
                      newSourceAdded |-> acc.newSourceAdded \/ e.ret]),
         sourceAllocations, k + 1, allocation)

\* Dependency::buildAllocationGraph of context d on the graph g: the loop
\* over the source edges in the order of keys, and the method.  The
\* result is [g, ret], the graph afterwards and the allocations returned.
RECURSIVE buildAllocationGraph(_, _, _, _)
RECURSIVE SourcesGathered(_, _, _, _, _)
SourcesGathered(acc, dep, d, sourceEdges, keys) ==
  IF keys = <<>> THEN acc
  ELSE LET first == Head(keys)
           second == sourceEdges[first]
       IN SourcesGathered(
            IF first = NULL
            THEN [acc EXCEPT !.ret = Append(@, second)]
            ELSE With(buildAllocationGraph(acc.g, dep, d, first),
                      LAMBDA built :
                        IF built.ret = <<>>
                        THEN [g |-> built.g,
                              ret |-> IF second # NULL
                                      THEN Append(acc.ret, second)
                                      ELSE acc.ret]
                        ELSE With(SourceEdgesAdded(
                                    [g |-> built.g, newSourceAdded |-> FALSE],
                                    built.ret, 1, second),
                                  LAMBDA added :
                                    [g |-> added.g,
                                     ret |-> IF added.newSourceAdded
                                             THEN Append(acc.ret, second)
                                             ELSE acc.ret])),
            dep, d, sourceEdges, Tail(keys))

buildAllocationGraph(g, dep, d, target) ==
  With(directAllocationSources(dep, d, target),
       LAMBDA sourceEdges :
         SourcesGathered([g |-> g, ret |-> <<>>], dep, d, sourceEdges,
                         Keys(sourceEdges)))

\* Dependency::allFlowSources of context d, as the set of its elements:
\* the target and everything it flows from.
RECURSIVE allFlowSources(_, _, _)
allFlowSources(dep, d, target) ==
  LET stepSources == directFlowSources(dep, d, target)
  IN {target} \cup UNION {allFlowSources(dep, d, stepSources[i]) :
                            i \in 1..Len(stepSources)}

\* Dependency::markAllValues of the current context, for the value a
\* branch condition of the unsat core was computed from: a stored datum or
\* a loaded value.
MarkAllValues(value) ==
  /\ value \in 1..Len(AllValues(dependency))
  /\ AllValues(dependency)[value].value
       \in DataSites \cup {LoadSite[ptr] : ptr \in PointerSites}
  /\ ~graphCrashed
  /\ LET g == buildAllocationGraph(Graph, dependency, Len(dependency),
                                   value).g
     IN /\ allNodes' = g.allNodes
        /\ sinks' = g.sinks
        /\ parents' = g.parents
        /\ sinksCapacity' = g.sinksCapacity
  /\ inInterpolant' =
       inInterpolant \cup allFlowSources(dependency, Len(dependency), value)
  /\ lastExecuted' = NoInstruction
  /\ UNCHANGED <<dependency, numExecuted, fatal, argumentValuesList,
                 graphCrashed>>

\* Dependency::getAllVersionedAllocations and getAllCompositeAllocations:
\* the sites registered along the chain.
getAllVersionedAllocations(dep) ==
  {AllAllocations(dep)[k].site : k \in
     {j \in 1..Len(AllAllocations(dep)) : ~AllAllocations(dep)[j].composite}}

getAllCompositeAllocations(dep) ==
  {AllAllocations(dep)[k].site : k \in
     {j \in 1..Len(AllAllocations(dep)) : AllAllocations(dep)[j].composite}}

\* Dependency::getLatestCoreExpressions(interpolantValueOnly = true): the
\* keys of the returned map, the sites whose newest version stores a value
\* in the interpolant.
getLatestCoreExpressions(dep, marked) ==
  {site \in getAllVersionedAllocations(dep) :
     LET stored == stores(dep, Len(dep),
                          getLatestAllocation(dep, Len(dep), site))
     IN stored # <<>> /\ stored[1] \in marked}

\* Dependency::getCompositeCoreExpressions(interpolantValueOnly = true):
\* the keys of the returned map, the sites that store some value in the
\* interpolant.
getCompositeCoreExpressions(dep, marked) ==
  {site \in getAllCompositeAllocations(dep) :
     LET stored == stores(dep, Len(dep),
                          getLatestAllocation(dep, Len(dep), site))
     IN \E k \in 1..Len(stored) :
          stored[k] \in marked}

(***************************************************************************)
(* ShadowArray.  The process-wide map from arrays to their shadows, and    *)
(* the renaming of expressions over it.                                    *)
(*   shadowMap     ShadowArray::shadowArray: a function from the arrays    *)
(*                 that are keys of the map to their shadow (NULL for a    *)
(*                 null pointer)                                           *)
(*   replacements  the caller's collection of existential arrays           *)
(*   numShadows    the shadow arrays the renamer has created               *)
(*   lastShadow    the call made last, its expression and its result, and  *)
(*                 whether it repeats the call before it                   *)
(* Arrays 1..NumSources are the arrays programs read, the next NumTargets  *)
(* the shadows an executor registers, the following ones are created by    *)
(* the renamer.                                                            *)
(***************************************************************************)
NumSources == 2
NumTargets == 2
MaxShadows == 2

VARIABLES shadowMap, replacements, numShadows, lastShadow

shadowVars == <<shadowMap, replacements, numShadows, lastShadow>>

ProgramArrays == 1..NumSources
RegisteredShadows == (NumSources + 1)..(NumSources + NumTargets)

\* The expressions that are renamed.
ShadowPool ==
  {ReadExpr(a) : a \in ProgramArrays}
  \cup {ConstantExpr(0), SltExpr(ReadExpr(1), ReadExpr(NumSources)),
        EqExpr(ReadExpr(NumSources), ConstantExpr(0))}

NoShadow == [op |-> "none", expr |-> ConstantExpr(0), ret |-> ConstantExpr(0),
             again |-> FALSE]

ShadowInit ==
  /\ shadowMap = <<>>
  /\ replacements = {}
  /\ numShadows = 0
  /\ lastShadow = NoShadow

\* std::map::operator[] on ShadowArray::shadowArray: a key that is missing
\* is inserted with a null pointer.
Subscript(map, root) ==
  IF root \in DOMAIN map THEN map ELSE map @@ (root :> NULL)

\* ShadowArray::addShadowArrayMap.
addShadowArrayMap(source, target) ==
  /\ shadowMap' = [Subscript(shadowMap, source) EXCEPT ![source] = target]
  /\ lastShadow' = NoShadow
  /\ UNCHANGED <<replacements, numShadows>>

\* ShadowArray::getShadowExpression(expr) over the map: the result and the
\* map afterwards.
shadowOfRead(map, e) ==
  [ret |-> ReadExpr(Subscript(map, e[2])[e[2]]), map |-> Subscript(map, e[2])]

shadowOf(map, e) ==
  IF isRead(e) THEN shadowOfRead(map, e)
  ELSE IF isConstant(e) THEN [ret |-> e, map |-> map]
  ELSE LET kid0 == IF isRead(e[2]) THEN shadowOfRead(map, e[2])
                   ELSE [ret |-> e[2], map |-> map]
           kid1 == IF isRead(e[3]) THEN shadowOfRead(kid0.map, e[3])
                   ELSE [ret |-> e[3], map |-> kid0.map]
       IN [ret |-> <<e[1], kid0.ret, kid1.ret>>, map |-> kid1.map]

GetShadowExpression(expr) ==
  /\ shadowMap' = shadowOf(shadowMap, expr).map
  /\ lastShadow' = [op |-> "shadow", expr |-> expr,
                    ret |-> shadowOf(shadowMap, expr).ret,
                    again |-> lastShadow.op = "shadow"
                              /\ lastShadow.expr = expr]
  /\ UNCHANGED <<replacements, numShadows>>

\* A renamer that never finds a mapping.
hasNoShadow(map, root) == FALSE

\* Whether the root of a Read has a shadow mapping yet.
hasShadow(map, root) == root \in DOMAIN map

\* ShadowArray::getShadowExpression(expr, replacements), the renaming of a
\* Read: a root without a mapping gets a new shadow array and the mapping
\* to it; the shadow is recorded in replacements.  st is the map, the
\* replacements and the number of shadows created.
renameRead(st, e) ==
  LET root == e[2]
      fresh == NumSources + NumTargets + st.numShadows + 1
      mapped == hasShadow(st.map, root)
      shadow == IF mapped THEN st.map[root] ELSE fresh
      map1 == IF mapped THEN st.map
              ELSE [Subscript(st.map, root) EXCEPT ![root] = fresh]
  IN [ret |-> ReadExpr(shadow), map |-> map1,
      replacements |-> st.replacements \cup {shadow},
      numShadows |-> IF mapped THEN st.numShadows ELSE st.numShadows + 1]

renameOf(st, e) ==
  IF isRead(e) THEN renameRead(st, e)
  ELSE IF isConstant(e) THEN [st EXCEPT !.ret = e]
  ELSE LET kid0 == IF isRead(e[2]) THEN renameRead(st, e[2])
                   ELSE [st EXCEPT !.ret = e[2]]
           kid1 == IF isRead(e[3]) THEN renameRead(kid0, e[3])
                   ELSE [kid0 EXCEPT !.ret = e[3]]
       IN [kid1 EXCEPT !.ret = <<e[1], kid0.ret, kid1.ret>>]

GetShadowExpressionWith(expr) ==
  LET st == [ret |-> expr, map |-> shadowMap, replacements |-> replacements,
             numShadows |-> numShadows]
      done == renameOf(st, expr)
  IN /\ done.numShadows <= MaxShadows
     /\ shadowMap' = done.map
     /\ replacements' = done.replacements
     /\ numShadows' = done.numShadows
     /\ lastShadow' = [op |-> "rename", expr |-> expr, ret |-> done.ret,
                       again |-> lastShadow.op = "rename"
                                 /\ lastShadow.expr = expr]

\* The caller starts the collection for another table entry.
NewReplacements ==
  /\ replacements # {}
  /\ replacements' = {}
  /\ lastShadow' = NoShadow
  /\ UNCHANGED <<shadowMap, numShadows>>

(***************************************************************************)
(* Fourier-Motzkin elimination.  The existentially quantified formula has  *)
(* the body And(interpolant, equalities), each side one comparison of      *)
(* linear expressions over the shadow array (the bound variable) and the   *)
(* state's array.  A linear expression in Inequality is a                  *)
(* std::map<ref<Expr>, int64_t>: a function from the terms that are keys   *)
(* to their coefficients, with ConstantExpr(0) the key of the constant.    *)
(*   fmBody    the two kids of the body                                    *)
(*   fmResult  whether simplifyWithFourierMotzkin has returned, whether it *)
(*             returned the formula unchanged, and else the conjuncts of   *)
(*             the expression it returned                                  *)
(***************************************************************************)
VARIABLES fmBody, fmResult

fmVars == <<fmBody, fmResult>>

AddExpr(l, r) == <<"Add", l, r>>
SubExpr(l, r) == <<"Sub", l, r>>
MulExpr(l, r) == <<"Mul", l, r>>
SleExpr(l, r) == <<"Sle", l, r>>

BoundArray == shadowArray[XArray]
boundVariables == <<BoundArray>>

\* The linear expressions and the comparisons of a body.
AtomPool == {ReadExpr(BoundArray), ReadExpr(XArray), ConstantExpr(0)}

LinearPool ==
  AtomPool
  \cup {MulExpr(ConstantExpr(MaxVal), ReadExpr(BoundArray)),
        AddExpr(ReadExpr(BoundArray), ReadExpr(XArray)),
        SubExpr(ReadExpr(XArray), ReadExpr(BoundArray))}

ComparisonPool ==
  {<<kind, l, r>> : kind \in {"Sle", "Slt"}, l \in LinearPool,
                    r \in AtomPool}
    \ {<<kind, l, l>> : kind \in {"Sle", "Slt"}, l \in LinearPool}

NoResult == [done |-> FALSE, unchanged |-> FALSE, conjuncts |-> <<>>]

\* The iteration order of a std::map<ref<Expr>, int64_t>.
TermKeys == <<ConstantExpr(0), ReadExpr(XArray), ReadExpr(BoundArray)>>

KeysOf(map) ==
  LET IsKey(k) == k \in DOMAIN map
  IN SelectSeq(TermKeys, IsKey)

\* int64_t division.
Abs(a) == IF a < 0 THEN 0 - a ELSE a
Quotient(a, b) ==
  IF (a < 0) = (b < 0) THEN Abs(a) \div Abs(b) ELSE 0 - (Abs(a) \div Abs(b))

\* Inequality::coefficientOperation, the loop over map2 for the term
\* (expr1, c1) of map1.
RECURSIVE CoefficientInner(_, _, _, _, _, _, _)
CoefficientInner(kind, expr1, c1, map2, ks, i, isFound) ==
  IF i > Len(ks) THEN [map |-> map2, isFound |-> isFound]
  ELSE IF expr1 = ks[i]
  THEN [map |-> IF kind = "Add" THEN Put(map2, ks[i], c1 + map2[ks[i]])
                ELSE IF kind = "Sub" THEN Put(map2, ks[i], c1 - map2[ks[i]])
                ELSE map2,
        isFound |-> TRUE]
  ELSE IF kind = "Mul"
  THEN CoefficientInner(kind, expr1, c1, Put(map2, ks[i], c1 * map2[ks[i]]),
                        ks, i + 1, TRUE)
  ELSE CoefficientInner(kind, expr1, c1, map2, ks, i + 1, isFound)

\* Inequality::coefficientOperation, the loop over map1.
RECURSIVE CoefficientOuter(_, _, _, _, _)
CoefficientOuter(kind, map1, ks1, i, map2) ==
  IF i > Len(ks1) THEN map2
  ELSE With(CoefficientInner(kind, ks1[i], map1[ks1[i]], map2,
                             KeysOf(map2), 1, FALSE),
            LAMBDA inner :
              CoefficientOuter(kind, map1, ks1, i + 1,
                IF inner.isFound THEN inner.map
                ELSE Put(inner.map, ks1[i], map1[ks1[i]])))

coefficientOperation(kind, map1, map2) ==
  CoefficientOuter(kind, map1, KeysOf(map1), 1, map2)

\* Inequality::getLinearTerms.
RECURSIVE getLinearTerms(_)
getLinearTerms(expr) ==
  IF expr[1] \in {"Add", "Sub", "Mul"}
  THEN With(getLinearTerms(expr[2]), LAMBDA map1 :
         With(getLinearTerms(expr[3]), LAMBDA map2 :
           coefficientOperation(expr[1], map1, map2)))
  ELSE IF isConstant(expr) THEN (ConstantExpr(0) :> expr[2])
  ELSE (expr :> 1)

\* Inequality::Inequality(expr).
Inequality(expr) ==
  With(getLinearTerms(expr[2]), LAMBDA lhs :
    With(getLinearTerms(expr[3]), LAMBDA rhs :
      [kind |-> expr[1], lhs |-> lhs, rhs |-> rhs]))

\* SubsumptionTableEntry::getSimplifiableConjunctsForFourierMotzkin on a
\* comparison: the comparison itself.
getSimplifiableConjunctsForFourierMotzkin(conjunction) ==
  IF conjunction[1] \in {"Sle", "Slt", "Sge", "Sgt"} THEN <<conjunction>>
  ELSE <<>>

\* Inequality::mergeTermToLinearExpression.
mergeTermToLinearExpression(map, expr, coefficient) ==
  IF expr \in DOMAIN map THEN Put(map, expr, map[expr] + coefficient)
  ELSE Put(map, expr, coefficient)

\* Inequality::normalize, the kind after the division by the coefficient
\* of the focus variable.
reversedKind(kind, coefficient) ==
  IF coefficient >= 0 THEN kind
  ELSE CASE kind = "Sle" -> "Sge"
         [] kind = "Sge" -> "Sle"
         [] kind = "Slt" -> "Sgt"
         [] kind = "Sgt" -> "Slt"
         [] OTHER -> kind

Divided(map, coefficient) ==
  [k \in DOMAIN map |-> Quotient(map[k], coefficient)]

containsNonConstantExpr(termsList) ==
  \E k \in DOMAIN termsList : ~isConstant(k)

\* Inequality::normalize, the end: the padding of an empty side with the
\* constant 0 and the assignment of the new sides.
normalizeEnd(ineq, dividedLhs, dividedRhs, newKind, isOnFocusVarOnLeft) ==
  LET zero == ConstantExpr(0)
      padRhs == /\ DOMAIN dividedLhs # {}
                /\ containsNonConstantExpr(dividedLhs)
                /\ DOMAIN dividedRhs = {}
      padLhs == /\ ~padRhs
                /\ DOMAIN dividedRhs # {}
                /\ containsNonConstantExpr(dividedRhs)
                /\ DOMAIN dividedLhs = {}
      newRhs == IF padRhs THEN (zero :> 0) ELSE dividedRhs
      newLhs == IF padLhs THEN (zero :> 0) ELSE dividedLhs
  IN IF DOMAIN newLhs # {} /\ DOMAIN newRhs # {}
     THEN [ineq |-> [kind |-> newKind, lhs |-> newLhs, rhs |-> newRhs],
           isOnFocusVarOnLeft |-> isOnFocusVarOnLeft]
     ELSE [ineq |-> ineq, isOnFocusVarOnLeft |-> FALSE]

\* Inequality::normalize: the inequality afterwards and the value
\* returned.
normalize(ineq, focusVariable) ==
  LET focus == ReadExpr(focusVariable)
      lhsFocus == IF focus \in DOMAIN ineq.lhs
                  THEN mergeTermToLinearExpression(<<>>, focus,
                                                   ineq.lhs[focus])
                  ELSE <<>>
      movedLhs == IF focus \in DOMAIN ineq.rhs
                  THEN mergeTermToLinearExpression(lhsFocus, focus,
                                                   0 - ineq.rhs[focus])
                  ELSE lhsFocus
      others == (DOMAIN ineq.lhs \cup DOMAIN ineq.rhs) \ {focus}
      movedRhs == [k \in others |->
                     (IF k \in DOMAIN ineq.rhs THEN ineq.rhs[k] ELSE 0)
                     - (IF k \in DOMAIN ineq.lhs THEN ineq.lhs[k] ELSE 0)]
      onFocusVarCoefficient ==
        IF focus \in DOMAIN ineq.rhs THEN movedLhs[focus]
        ELSE IF focus \in DOMAIN ineq.lhs THEN ineq.lhs[focus] ELSE 0
      isOnFocusVarOnLeft == focus \in DOMAIN ineq.lhs \cup DOMAIN ineq.rhs
  IN With(onFocusVarCoefficient, LAMBDA c :
       IF c # 1 /\ c # 0
       THEN With(Divided(movedLhs, c), LAMBDA dividedLhs :
              With(Divided(movedRhs, c), LAMBDA dividedRhs :
                normalizeEnd(ineq, dividedLhs, dividedRhs,
                             reversedKind(ineq.kind, c),
                             isOnFocusVarOnLeft)))
       ELSE With(movedLhs, LAMBDA dividedLhs :
              With(movedRhs, LAMBDA dividedRhs :
                normalizeEnd(ineq, dividedLhs, dividedRhs, ineq.kind,
                             isOnFocusVarOnLeft))))

\* SubsumptionTableEntry::classify: the pack an inequality is put in.
classify(currIneq, isOnFocusVarOnLeft) ==
  IF ~isOnFocusVarOnLeft THEN "none"
  ELSE IF Cardinality(DOMAIN currIneq.lhs) = 1
  THEN (IF currIneq.kind \in {"Sle", "Sge", "Slt", "Sgt"} THEN currIneq.kind
        ELSE "dropped")
  ELSE "none"

\* Inequality::matchingLoop.
RECURSIVE matchingLoop(_, _, _, _)
matchingLoop(kind, pack1, pack2, i) ==
  IF i > Len(pack1) THEN <<>>
  ELSE [j \in 1..Len(pack2) |->
          [kind |-> kind, lhs |-> pack1[i].rhs, rhs |-> pack2[j].rhs]]
       \o matchingLoop(kind, pack1, pack2, i + 1)

\* Inequality::match.
match(lePack, gePack, ltPack, gtPack) ==
  matchingLoop("Sle", gePack, lePack, 1)
  \o matchingLoop("Slt", gtPack, lePack, 1)
  \o matchingLoop("Slt", gePack, ltPack, 1)
  \o matchingLoop("Slt", gtPack, ltPack, 1)

\* The inequalities classify put in the pack of a name, in their order.
RECURSIVE Pack(_, _, _)
Pack(normalized, name, i) ==
  IF i > Len(normalized) THEN <<>>
  ELSE (IF classify(normalized[i].ineq, normalized[i].isOnFocusVarOnLeft)
           = name
        THEN <<normalized[i].ineq>> ELSE <<>>)
       \o Pack(normalized, name, i + 1)

RECURSIVE NormalizeAll(_, _, _)
NormalizeAll(inequalityPack, currExistVar, i) ==
  IF i > Len(inequalityPack) THEN <<>>
  ELSE <<normalize(inequalityPack[i], currExistVar)>>
       \o NormalizeAll(inequalityPack, currExistVar, i + 1)

\* SubsumptionTableEntry::simplifyWithFourierMotzkin, steps 2 and 3 for
\* one bound variable.
Eliminate(inequalityPack, currExistVar) ==
  With(NormalizeAll(inequalityPack, currExistVar, 1), LAMBDA normalized :
    With(Pack(normalized, "Sle", 1), LAMBDA lePack :
      With(Pack(normalized, "Sge", 1), LAMBDA gePack :
        With(Pack(normalized, "Slt", 1), LAMBDA ltPack :
          With(Pack(normalized, "Sgt", 1), LAMBDA gtPack :
            match(lePack, gePack, ltPack, gtPack)
            \o Pack(normalized, "none", 1))))))

RECURSIVE EliminateAll(_, _)
EliminateAll(inequalityPack, i) ==
  IF i > Len(boundVariables) THEN inequalityPack
  ELSE With(Eliminate(inequalityPack, boundVariables[i]), LAMBDA resultPack :
         EliminateAll(resultPack, i + 1))

\* SubsumptionTableEntry::reconstructExpr, one side of an inequality: the
\* sum of its terms in the order of the map.
RECURSIVE reconstructSide(_, _, _)
reconstructSide(terms, ks, i) ==
  LET tmp == IF isConstant(ks[i]) THEN ConstantExpr(terms[ks[i]])
             ELSE IF terms[ks[i]] > 1
             THEN MulExpr(ks[i], ConstantExpr(terms[ks[i]]))
             ELSE ks[i]
  IN IF i = 1 THEN tmp
     ELSE AddExpr(reconstructSide(terms, ks, i - 1), tmp)

\* SubsumptionTableEntry::reconstructExpr: the conjuncts of the result.
reconstructExpr(inequalityPack) ==
  [i \in 1..Len(inequalityPack) |->
     <<inequalityPack[i].kind,
       reconstructSide(inequalityPack[i].lhs,
                       KeysOf(inequalityPack[i].lhs),
                       Len(KeysOf(inequalityPack[i].lhs))),
       reconstructSide(inequalityPack[i].rhs,
                       KeysOf(inequalityPack[i].rhs),
                       Len(KeysOf(inequalityPack[i].rhs)))>>]

\* The Inequality objects of a list of comparisons.
RECURSIVE Inequalities(_, _)
Inequalities(exprs, i) ==
  IF i > Len(exprs) THEN <<>>
  ELSE <<Inequality(exprs[i])>> \o Inequalities(exprs, i + 1)

\* SubsumptionTableEntry::simplifyWithFourierMotzkin of the formula with
\* the body And(body[1], body[2]).
simplifyWithFourierMotzkin(body) ==
  With(getSimplifiableConjunctsForFourierMotzkin(body[2])
         \o getSimplifiableConjunctsForFourierMotzkin(body[1]),
       LAMBDA exprs :
    With(Inequalities(exprs, 1), LAMBDA pack :
      With(EliminateAll(pack, 1), LAMBDA inequalityPack :
        IF inequalityPack = <<>>
        THEN [done |-> TRUE, unchanged |-> TRUE, conjuncts |-> <<>>]
        ELSE [done |-> TRUE, unchanged |-> FALSE,
              conjuncts |-> reconstructExpr(inequalityPack)])))

FMInit == fmBody = <<>> /\ fmResult = NoResult

SimplifyWithFourierMotzkin ==
  /\ fmBody # <<>>
  /\ ~fmResult.done
  /\ fmResult' = simplifyWithFourierMotzkin(fmBody)
  /\ UNCHANGED fmBody

(***************************************************************************)
(* TxPathCondition, the path condition of a build that keeps the           *)
(* constraints by depth.  txPath is the chain of TxPathCondition objects   *)
(* from the root to the object of the current state; the object at index   *)
(* k has depth k - 1 and is the left or the right child of the one before  *)
(* it.  Each has pcDepth, a function from the constraints to the depth     *)
(* they were added at, and the sets usedByLeftPath and usedByRightPath.    *)
(*   txLast  the unsat core interpolated last                              *)
(*   txWalk  the position of a running unsatCoreInterpolation: the object  *)
(*           currentPC, the keys not yet handled, the cumulative sets,     *)
(*           and the chain and the core it was called with                 *)
(***************************************************************************)
MaxTxDepth == 3     \* objects on the chain
MaxForks == 1       \* forks of a behaviour whose states are checked with two frames

VARIABLES txPath, txLast, txWalk

txVars == <<txPath, txLast, txWalk>>

\* TxPathCondition::TxPathCondition: the depth is the parent's plus one,
\* pcDepth is the parent's.
TxPathCondition(parent, side) ==
  [side |-> side, pcDepth |-> parent.pcDepth, usedByLeftPath |-> {},
   usedByRightPath |-> {}]

TxRoot == [side |-> "root", pcDepth |-> <<>>, usedByLeftPath |-> {},
           usedByRightPath |-> {}]

NoCore == [called |-> FALSE, unsatCore |-> <<>>]

NoWalk ==
  [active |-> FALSE, done |-> FALSE, currentPC |-> NULL, sortedKeys |-> <<>>,
   sets |-> <<>>, before |-> <<>>, unsatCore |-> <<>>]

TxInit == txPath = <<TxRoot>> /\ txLast = NoCore /\ txWalk = NoWalk

\* The state forks and continues in one child.
TxSplit(side) ==
  /\ Len(txPath) < MaxTxDepth
  /\ txPath' = Append(txPath, TxPathCondition(txPath[Len(txPath)], side))
  /\ txLast' = NoCore
  /\ txWalk' = NoWalk

\* TxPathCondition::addConstraint on the object of the current state.
TxAddConstraint(constraint) ==
  /\ constraint \notin DOMAIN txPath[Len(txPath)].pcDepth
  /\ txPath' = [txPath EXCEPT ![Len(txPath)].pcDepth =
                  Put(@, constraint, Len(txPath) - 1)]
  /\ txLast' = NoCore
  /\ txWalk' = NoWalk

\* The unsat cores a solver may return to the interpolation.
TxCores ==
  LET cs == ConstraintPool \cup {BranchCondition}
  IN {<<>>} \cup {<<a>> : a \in cs} \cup {s \in cs \X cs : s[1] # s[2]}

\* TxPathCondition::unsatCoreInterpolation, the first loop: the clauses of
\* the core that pcDepth.find finds, from clause i on.
RECURSIVE Found(_, _, _)
Found(pcDepth, unsatCore, i) ==
  IF i > Len(unsatCore) THEN {}
  ELSE (IF unsatCore[i] \in DOMAIN pcDepth THEN {unsatCore[i]} ELSE {})
       \cup Found(pcDepth, unsatCore, i + 1)

\* A depthToConstraintSet whose sets are not accumulated.
depthToOwnConstraintSet(pcDepth, found) ==
  [d \in {pcDepth[c] : c \in found} |-> {c \in found : pcDepth[c] = d}]

\* depthToConstraintSet after the loop over sortedKeys: at every key the
\* clauses found at that depth or above it in the tree.
depthToConstraintSet(pcDepth, found) ==
  [d \in {pcDepth[c] : c \in found} |-> {c \in found : pcDepth[c] <= d}]

\* The while loop: from the object at index currentPC up to the one of
\* depth constraintDepth, every parent records the set under the side of
\* the child the walk came from.
RECURSIVE Ascend(_, _, _, _)
Ascend(path, currentPC, constraintDepth, constraintSet) ==
  IF currentPC - 1 <= constraintDepth
  THEN [path |-> path, currentPC |-> currentPC]
  ELSE Ascend(
         IF path[currentPC].side = "left"
         THEN [path EXCEPT ![currentPC - 1].usedByLeftPath =
                 @ \cup constraintSet]
         ELSE [path EXCEPT ![currentPC - 1].usedByRightPath =
                 @ \cup constraintSet],
         currentPC - 1, constraintDepth, constraintSet)

\* The loop over sortedKeys in reverse.
RECURSIVE Interpolate(_, _, _, _)
Interpolate(walk, sets, sortedKeys, i) ==
  IF i < 1 THEN walk.path
  ELSE With(Ascend(walk.path, walk.currentPC, sortedKeys[i],
                   sets[sortedKeys[i]]),
            LAMBDA next : Interpolate(next, sets, sortedKeys, i - 1))

\* TxPathCondition::unsatCoreInterpolation on the object of the current
\* state.
UnsatCoreInterpolation(unsatCore) ==
  /\ unsatCore \in TxCores
  /\ \E found \in {Found(txPath[Len(txPath)].pcDepth, unsatCore, 1)} :
       \E sets \in {depthToConstraintSet(txPath[Len(txPath)].pcDepth,
                                         found)} :
         txPath' = Interpolate([path |-> txPath, currentPC |-> Len(txPath)],
                               sets, Sorted(DOMAIN sets),
                               Cardinality(DOMAIN sets))
  /\ txLast' = [called |-> TRUE, unsatCore |-> unsatCore]
  /\ txWalk' = NoWalk

\* TxPathCondition::unsatCoreInterpolation is entered: the loops that fill
\* depthToConstraintSet and sortedKeys have run and currentPC is this.
BeginInterpolation(unsatCore) ==
  /\ ~txWalk.active
  /\ unsatCore \in TxCores
  /\ \E found \in {Found(txPath[Len(txPath)].pcDepth, unsatCore, 1)} :
       \E sets \in {depthToConstraintSet(txPath[Len(txPath)].pcDepth,
                                         found)} :
         txWalk' = [active |-> TRUE, done |-> FALSE,
                    currentPC |-> Len(txPath),
                    sortedKeys |-> Sorted(DOMAIN sets), sets |-> sets,
                    before |-> txPath, unsatCore |-> unsatCore]
  /\ txLast' = NoCore
  /\ UNCHANGED txPath

\* One test of a loop condition of the running call and what it guards:
\* the reverse loop over sortedKeys ends and the call returns; or the
\* while loop moves currentPC to its parent, which records the set of the
\* key under the side currentPC is its child on; or the while loop ends
\* and the reverse loop goes to the next key.  The object at index i of
\* the chain has depth i - 1.
InterpolationStep ==
  /\ txWalk.active
  /\ IF txWalk.sortedKeys = <<>>
     THEN /\ txWalk' = [txWalk EXCEPT !.active = FALSE, !.done = TRUE]
          /\ txLast' = [called |-> TRUE, unsatCore |-> txWalk.unsatCore]
          /\ UNCHANGED txPath
     ELSE LET constraintDepth == txWalk.sortedKeys[Len(txWalk.sortedKeys)]
              constraintSet == txWalk.sets[constraintDepth]
              currentPC == txWalk.currentPC
          IN IF currentPC # NULL /\ currentPC - 1 > constraintDepth
             THEN /\ UNCHANGED txLast
                  /\ IF txPath[currentPC].side = "left"
                     THEN /\ txPath' = [txPath EXCEPT
                                          ![currentPC - 1].usedByLeftPath =
                                            @ \cup constraintSet]
                          /\ txWalk' = [txWalk EXCEPT
                                          !.currentPC = currentPC - 1]
                     ELSE IF txPath[currentPC].side = "right"
                     THEN /\ txPath' = [txPath EXCEPT
                                          ![currentPC - 1].usedByRightPath =
                                            @ \cup constraintSet]
                          /\ txWalk' = [txWalk EXCEPT
                                          !.currentPC = currentPC - 1]
                     ELSE UNCHANGED <<txPath, txWalk>>
             ELSE /\ txWalk' = [txWalk EXCEPT
                                  !.sortedKeys =
                                    SubSeq(@, 1, Len(@) - 1)]
                  /\ UNCHANGED <<txPath, txLast>>

\* The variables of the machines that are no tree, graph or dependency.
restVars == <<shadowVars, fmVars, txVars>>

(***************************************************************************)
(* The ITree API driven by an executor.  phase is the executor's position  *)
(* in its loop:                                                            *)
(*   "select"  it picks the next state, depth first, the newest fork's     *)
(*             left state before its right one, and calls setCurrentINode  *)
(*             with the state's instruction; the states of a fork just     *)
(*             made may first receive their branch constraints             *)
(*   "head"    it checks the state for subsumption at the instruction that *)
(*             named the node                                              *)
(*   "body"    it executes the state's instructions, which store, mark an  *)
(*             infeasible branch, add a constraint, check at an            *)
(*             instruction inside the block, fork, or terminate the state; *)
(*             a subsumed state is terminated                              *)
(***************************************************************************)
VARIABLE phase

vars == <<itree, live, nextNode, frames, freed, valuesList, subsumptionTable,
          currentINode, crashed, last, phase, allNodes, sinks, parents,
          sinksCapacity, graphCrashed,
          dependency, numExecuted, lastExecuted, inInterpolant, fatal,
          argumentValuesList,
          shadowMap, replacements, numShadows, lastShadow, fmBody, fmResult,
          txPath, txLast, txWalk>>

Leaves == {n \in live : IsLeaf(n)}

\* The state a depth-first search runs next.
IsNextState(n) ==
  /\ n \in Leaves
  /\ \A m \in Leaves : \/ m \div 2 < n \div 2
                       \/ (m \div 2 = n \div 2 /\ n <= m)

Running == /\ phase = "body"
           /\ currentINode \in live
           /\ ~itree[currentINode].isSubsumed

TreeNext ==
  \/ /\ Running /\ Split(currentINode) /\ phase' = "select"
     /\ UNCHANGED <<graphVars, depVars, restVars>>
  \/ \E n \in Nodes, c \in ConstraintPool, link \in BOOLEAN :
       /\ \/ Running /\ n = currentINode
          \/ phase = "select" /\ currentINode \in live
                              /\ itree[n].parent = currentINode
       /\ Len(frames) < MaxFrames
       /\ AddConstraint(n, c, link)
       /\ UNCHANGED <<phase, graphVars, depVars, restVars>>
  \/ \E e \in StoredPool :
       /\ Running
       /\ ExecuteStore(e)
       /\ UNCHANGED <<phase, graphVars, depVars, restVars>>
  \/ \E n \in Nodes, programPoint \in ProgramPoints :
       /\ phase = "select"
       /\ IsNextState(n)
       /\ SetCurrentINode(n, programPoint)
       /\ phase' = "head"
       /\ UNCHANGED <<graphVars, depVars, restVars>>
  \/ \E n \in Nodes : \E unsatCore \in UnsatCores(n), binst \in BOOLEAN :
       /\ n = currentINode
       /\ Running
       /\ MarkPathCondition(unsatCore, binst)
       /\ UNCHANGED <<phase, graphVars, depVars, restVars>>
  \/ \E nullOk \in BOOLEAN :
       /\ phase = "body"
       /\ Remove(currentINode, nullOk)
       /\ phase' = "select"
       /\ UNCHANGED <<graphVars, depVars, restVars>>
  \/ \E inst \in Instructions :
       /\ \/ phase = "head" /\ inst = itree[currentINode].nodeId
          \/ Running /\ inst # itree[currentINode].nodeId
       /\ \E r \in SolverRuns(currentINode, inst) :
            CheckCurrentStateSubsumption(inst, r[1], r[2], r[3])
       /\ phase' = "body"
       /\ UNCHANGED <<graphVars, depVars, restVars>>

\* The state after construction: the tree with its root, an empty
\* allocation graph, the root dependency context.
Start == /\ TreeInit /\ phase = "select" /\ GraphInit /\ DepInit
         /\ ShadowInit /\ FMInit /\ TxInit

SpecTree == Start /\ [][TreeNext]_vars

(***************************************************************************)
(* The bare node API: any sequence of split, addConstraint and remove on   *)
(* the nodes of the tree.                                                  *)
(***************************************************************************)
OwnNext ==
  \/ \E p \in Nodes : Split(p) /\ UNCHANGED <<phase, graphVars, depVars, restVars>>
  \/ \E n \in Nodes, c \in ConstraintPool :
       /\ Len(frames) < MaxOwnFrames
       /\ AddConstraint(n, c, FALSE)
       /\ UNCHANGED <<phase, graphVars, depVars, restVars>>
  \/ \E node \in Nodes, nullOk \in BOOLEAN :
       Remove(node, nullOk) /\ UNCHANGED <<phase, graphVars, depVars, restVars>>

SpecOwn == Start /\ [][OwnNext]_vars

(***************************************************************************)
(* The executor on one state that never forks: it stores, adds the         *)
(* constraints of the branches it takes and marks the unsat core of every  *)
(* infeasible branch on the path condition of the current node.            *)
(***************************************************************************)
MarkNext ==
  \/ \E c \in ConstraintPool, link \in BOOLEAN :
       /\ Len(frames) < MaxOwnFrames
       /\ AddConstraint(currentINode, c, link)
       /\ UNCHANGED <<phase, graphVars, depVars, restVars>>
  \/ \E e \in StoredPool :
       ExecuteStore(e) /\ UNCHANGED <<phase, graphVars, depVars, restVars>>
  \/ \E unsatCore \in UnsatCores(currentINode), binst \in BOOLEAN :
       /\ MarkPathCondition(unsatCore, binst)
       /\ UNCHANGED <<phase, graphVars, depVars, restVars>>

SpecMark == Start /\ [][MarkNext]_vars

(***************************************************************************)
(* Any sequence of addNewEdge calls on the initially empty graph.          *)
(***************************************************************************)
GraphNext ==
  \E source \in Allocations, target \in Allocations :
    /\ Len(allNodes) < MaxGraphNodes
    /\ addNewEdge(source, target)
    /\ UNCHANGED <<treeVars, phase, depVars, restVars>>

SpecGraph == Start /\ [][GraphNext]_vars

(***************************************************************************)
(* Any sequence of addNewEdge and consumeSinkNode calls on the initially   *)
(* empty graph.                                                            *)
(***************************************************************************)
SinkNext ==
  \/ \E source \in Allocations, target \in Allocations :
       /\ Len(allNodes) < MaxGraphNodes
       /\ addNewEdge(source, target)
       /\ UNCHANGED <<treeVars, phase, depVars, restVars>>
  \/ \E allocation \in Allocations, pos \in SinkRange, erased \in SinkRange :
       consumeSinkNode(allocation, pos, erased)
       /\ UNCHANGED <<treeVars, phase, depVars, restVars>>

SpecSink == Start /\ [][SinkNext]_vars

(***************************************************************************)
(* The instructions of a path executed on the chain of contexts of the     *)
(* nodes along it.                                                         *)
(***************************************************************************)
DepNext ==
  \/ \E i \in Program :
       execute(i) /\ UNCHANGED <<treeVars, phase, graphVars, restVars>>
  \/ NewContext /\ UNCHANGED <<treeVars, phase, graphVars, restVars>>

SpecDep == Start /\ [][DepNext]_vars

(***************************************************************************)
(* The instructions of a path and the markings of the unsat cores of its   *)
(* infeasible branches.                                                    *)
(***************************************************************************)
CoreNext ==
  \/ \E i \in Program :
       execute(i) /\ UNCHANGED <<treeVars, phase, graphVars, restVars>>
  \/ NewContext /\ UNCHANGED <<treeVars, phase, graphVars, restVars>>
  \/ \E value \in 1..(2 * MaxExecuted) :
       MarkAllValues(value) /\ UNCHANGED <<treeVars, phase, restVars>>

SpecCore == Start /\ [][CoreNext]_vars

(***************************************************************************)
(* The instructions of a path that also stores and loads through a loaded  *)
(* pointer.                                                                *)
(***************************************************************************)
LoadedPointerNext ==
  \/ \E i \in Program \cup LoadedPointerProgram :
       execute(i) /\ UNCHANGED <<treeVars, phase, graphVars, restVars>>
  \/ NewContext /\ UNCHANGED <<treeVars, phase, graphVars, restVars>>

SpecLoadedPointer == Start /\ [][LoadedPointerNext]_vars

(***************************************************************************)
(* The instructions of a path with additions, calls and returns.           *)
(***************************************************************************)
FlowNext ==
  \/ \E i \in Program \cup ArithmeticProgram :
       execute(i) /\ UNCHANGED <<treeVars, phase, graphVars, restVars>>
  \/ NewContext /\ UNCHANGED <<treeVars, phase, graphVars, restVars>>
  \/ \E actuals \in CallSites :
       bindCallArguments(actuals)
       /\ UNCHANGED <<treeVars, phase, graphVars, restVars>>
  \/ \E returnValue \in ReturnValues :
       bindReturnValue(returnValue)
       /\ UNCHANGED <<treeVars, phase, graphVars, restVars>>

SpecFlow == Start /\ [][FlowNext]_vars

(***************************************************************************)
(* The allocation graph of one unsat core: the instructions of the         *)
(* copying program, then markAllValues on the graph for the latest version *)
(* of a condition, then the draining of its sinks.                         *)
(***************************************************************************)
\* Dependency::computeCoreAllocations, one round: a sink is consumed.
computeCoreAllocations(sink, pos, erased) ==
  /\ sink \in 1..Len(sinks)
  /\ consumeSinkNode(allNodes[sinks[sink]], pos, erased)
  /\ UNCHANGED depVars

BuildNext ==
  \/ \E i \in CopyProgram :
       /\ allNodes = <<>> /\ inInterpolant = {}
       /\ ExecuteWithin(i, MaxCopied)
       /\ UNCHANGED <<treeVars, phase, graphVars, restVars>>
  \/ /\ allNodes = <<>> /\ inInterpolant = {}
     /\ NewContext
     /\ UNCHANGED <<treeVars, phase, graphVars, restVars>>
  \/ \E value \in 1..(2 * MaxCopied) :
       /\ value \in 1..Len(AllValues(dependency))
       /\ value = getLatestValue(dependency, Len(dependency),
                                 AllValues(dependency)[value].value)
       /\ MarkAllValues(value)
       /\ UNCHANGED <<treeVars, phase, restVars>>
  \/ \E sink \in SinkRange, pos \in SinkRange, erased \in SinkRange :
       /\ computeCoreAllocations(sink, pos, erased)
       /\ UNCHANGED <<treeVars, phase, restVars>>

SpecBuild == Start /\ [][BuildNext]_vars

(***************************************************************************)
(* The chain of TxPathCondition objects of one state and the calls of      *)
(* unsatCoreInterpolation on it, loop test by loop test.  A call that has  *)
(* been entered runs on: no other method of the chain is called before it  *)
(* returns, and its next step is taken.                                    *)
(***************************************************************************)
InterpolationNext ==
  \/ \E side \in {"left", "right"} :
       /\ ~txWalk.active
       /\ TxSplit(side)
       /\ UNCHANGED <<treeVars, phase, graphVars, depVars, shadowVars,
                      fmVars>>
  \/ \E constraint \in ConstraintPool \cup {BranchCondition} :
       /\ ~txWalk.active
       /\ TxAddConstraint(constraint)
       /\ UNCHANGED <<treeVars, phase, graphVars, depVars, shadowVars,
                      fmVars>>
  \/ \E unsatCore \in TxCores :
       /\ BeginInterpolation(unsatCore)
       /\ UNCHANGED <<treeVars, phase, graphVars, depVars, shadowVars,
                      fmVars>>
  \/ /\ InterpolationStep
     /\ UNCHANGED <<treeVars, phase, graphVars, depVars, shadowVars, fmVars>>

SpecInterpolation ==
  /\ Start
  /\ [][InterpolationNext]_vars
  /\ WF_vars(InterpolationStep
             /\ UNCHANGED <<treeVars, phase, graphVars, depVars, shadowVars,
                            fmVars>>)

(***************************************************************************)
(* Any sequence of registrations and renamings on the shadow-array map.    *)
(***************************************************************************)
ShadowNext ==
  \/ \E source \in ProgramArrays, target \in RegisteredShadows :
       /\ addShadowArrayMap(source, target)
       /\ UNCHANGED <<treeVars, phase, graphVars, depVars, fmVars, txVars>>
  \/ \E expr \in ShadowPool :
       /\ GetShadowExpression(expr)
       /\ UNCHANGED <<treeVars, phase, graphVars, depVars, fmVars, txVars>>
  \/ \E expr \in ShadowPool :
       /\ GetShadowExpressionWith(expr)
       /\ UNCHANGED <<treeVars, phase, graphVars, depVars, fmVars, txVars>>
  \/ NewReplacements /\ UNCHANGED <<treeVars, phase, graphVars, depVars, fmVars, txVars>>

SpecShadow == Start /\ [][ShadowNext]_vars

(***************************************************************************)
(* simplifyWithFourierMotzkin applied to the formulas over the pools.      *)
(***************************************************************************)
StartFM ==
  /\ TreeInit /\ phase = "select" /\ GraphInit /\ DepInit /\ ShadowInit
  /\ fmBody \in ComparisonPool \X ComparisonPool
  /\ fmResult = NoResult
  /\ TxInit

FMNext ==
  /\ SimplifyWithFourierMotzkin
  /\ UNCHANGED <<treeVars, phase, graphVars, depVars, shadowVars, txVars>>

SpecFM == StartFM /\ [][FMNext]_vars

(***************************************************************************)
(* The two consumers of unsat cores.  A build has one of the two path      *)
(* conditions: either the executor drives the ITree API, or the chain of   *)
(* TxPathCondition objects is built and interpolated.                      *)
(***************************************************************************)
TxIdle == TxInit

TreeIdle == TreeInit /\ phase = "select"

TxNext ==
  \/ \E side \in {"left", "right"} :
       /\ TreeIdle
       /\ TxSplit(side)
       /\ UNCHANGED <<treeVars, phase, graphVars, depVars, shadowVars,
                      fmVars>>
  \/ \E constraint \in ConstraintPool :
       /\ TreeIdle
       /\ TxAddConstraint(constraint)
       /\ UNCHANGED <<treeVars, phase, graphVars, depVars, shadowVars,
                      fmVars>>
  \/ \E unsatCore \in TxCores :
       /\ TreeIdle
       /\ UnsatCoreInterpolation(unsatCore)
       /\ UNCHANGED <<treeVars, phase, graphVars, depVars, shadowVars,
                      fmVars>>

\* The executor on states that fork and are checked for subsumption at the
\* head of their block, with no value behind a constraint.
SubsumptionNext ==
  \/ /\ TxIdle
     /\ Running /\ nextNode < 2 + 2 * MaxForks
     /\ Split(currentINode) /\ phase' = "select"
     /\ UNCHANGED <<graphVars, depVars, restVars>>
  \/ \E c \in ConstraintPool :
       /\ TxIdle
       /\ Running
       /\ Len(frames) < MaxOwnFrames
       /\ AddConstraint(currentINode, c, FALSE)
       /\ UNCHANGED <<phase, graphVars, depVars, restVars>>
  \/ \E n \in Nodes, programPoint \in ProgramPoints :
       /\ TxIdle
       /\ phase = "select"
       /\ IsNextState(n)
       /\ SetCurrentINode(n, programPoint)
       /\ phase' = "head"
       /\ UNCHANGED <<graphVars, depVars, restVars>>
  \/ /\ TxIdle
     /\ Running
     /\ ExecuteStore(ReadExpr(XArray))
     /\ UNCHANGED <<phase, graphVars, depVars, restVars>>
  \/ \E unsatCore \in UnsatCores(currentINode), binst \in BOOLEAN :
       /\ TxIdle
       /\ Running
       /\ MarkPathCondition(unsatCore, binst)
       /\ UNCHANGED <<phase, graphVars, depVars, restVars>>
  \/ /\ TxIdle
     /\ phase = "body"
     /\ Remove(currentINode, TRUE)
     /\ phase' = "select"
     /\ UNCHANGED <<graphVars, depVars, restVars>>
  \/ \E inst \in Instructions :
       /\ TxIdle
       /\ phase = "head" /\ inst = itree[currentINode].nodeId
       /\ \E r \in SolverRuns(currentINode, inst) :
            CheckCurrentStateSubsumption(inst, r[1], r[2], r[3])
       /\ phase' = "body"
       /\ UNCHANGED <<graphVars, depVars, restVars>>

UnsatCoreNext == SubsumptionNext \/ TxNext

SpecUnsatCore == Start /\ [][UnsatCoreNext]_vars

(***************************************************************************)
(* Properties of the interpolation tree.                                   *)
(***************************************************************************)
Bucket(n) == subsumptionTable[itree[n].nodeId]

\* The entry's interpolant and store equalities, its existentials chosen
\* suitably, hold in every assignment that satisfies the path condition of
\* the state at node n, whose store must have the entry's allocation.
Implied(e, n) ==
  /\ e.singletonStore # <<>> => getSingletonExpressions(n) # <<>>
  /\ \A env \in Envs :
       EvalConj(PathConstraints(n), env) =>
         \E env2 \in Envs :
           /\ \A a \in AllArrays \ e.existentials : env2[a] = env[a]
           /\ EvalConj(e.interpolant, env2)
           /\ e.singletonStore # <<>> =>
                EvalValue(e.singletonStore[1], env2) =
                  EvalValue(getSingletonExpressions(n)[1], env2)

\* C1: whenever checkCurrentStateSubsumption has returned true, the table
\* holds an entry under the current node's id whose interpolant and store
\* equalities are implied by the state's path condition and store.
SubsumptionSound ==
  (last.op = "check" /\ last.res) =>
    \E j \in 1..Len(Bucket(currentINode)) :
      Implied(Bucket(currentINode)[j], currentINode)

\* C2: no frame that is still reachable from the path-condition head of a
\* live node has been freed.
FramesOwned ==
  \A n \in live : ChainSet(itree[n].pathCondition) \cap freed = {}

IsPrefix(s, t) == Len(s) <= Len(t) /\ \A i \in 1..Len(s) : s[i] = t[i]

\* C3: no step removes, replaces or reorders a stored entry; only remove
\* adds entries, and only at the end of the bucket of a deleted node's id.
TableMonotonic ==
  [][/\ \A k \in 0..MaxPP : IsPrefix(subsumptionTable[k], subsumptionTable'[k])
     /\ subsumptionTable' # subsumptionTable => last'.op = "remove"
     /\ \A k \in 0..MaxPP :
          subsumptionTable'[k] # subsumptionTable[k] =>
            \E n \in live \ live' : itree[n].nodeId = k]_vars

TableMonotonicWitness ==
  /\ last.op = "remove"
  /\ \E k \in 0..MaxPP :
       /\ Len(subsumptionTable[k]) >= 2
       /\ subsumptionTable[k][1] # subsumptionTable[k][2]

\* C4: a remove appends to every bucket one entry for each node it deletes
\* that has that id and is not subsumed, and none for a subsumed node.
EntryIffNotSubsumed ==
  [][\A k \in 0..MaxPP :
       Len(subsumptionTable'[k]) =
         Len(subsumptionTable[k]) +
           Cardinality({n \in live \ live' :
                          itree[n].nodeId = k /\ ~itree[n].isSubsumed})]_vars

EntryIffNotSubsumedWitness ==
  /\ last.op = "remove"
  /\ last.stored >= 1
  /\ last.stored < Cardinality(last.deleted)

\* C5: a remove deletes the leaf and exactly the ancestors left without
\* children, clears the pointer of the first ancestor that keeps a child,
\* and leaves every remaining node linked from its parent.
RECURSIVE LostAncestors(_, _)
LostAncestors(n, it) ==
  LET p == it[n].parent
  IN IF p = NULL THEN {n}
     ELSE IF {it[p].left, it[p].right} \ {n, NULL} = {} 
          THEN {n} \cup LostAncestors(p, [it EXCEPT ![p].left = NULL,
                                                    ![p].right = NULL])
          ELSE {n}

Linked(it, lv) ==
  \A n \in lv : \/ it[n].parent = NULL
                \/ /\ it[n].parent \in lv
                   /\ n \in {it[it[n].parent].left, it[it[n].parent].right}

RemoveUnlinks ==
  [][(last'.op = "remove" /\ ~crashed') =>
       \E leaf \in live :
         /\ IsLeaf(leaf)
         /\ live \ live' = LostAncestors(leaf, itree)
         /\ \A n \in live' :
              {itree'[n].left, itree'[n].right} \cap (live \ live') = {}
         /\ Linked(itree', live')]_vars

RemoveUnlinksWitness ==
  /\ last.op = "remove"
  /\ ~crashed
  /\ Cardinality(last.deleted) >= 2
  /\ live # {}

\* C6: when the state's instruction differs from the node's id or the
\* bucket of that id is empty, the check returns false, asks no solver and
\* marks no node, frame or value.
GateReturnsFalse ==
  [][(last'.op = "check" /\ (\/ last'.inst # itree[currentINode].nodeId
                             \/ Bucket(currentINode) = <<>>)) =>
       /\ ~last'.res
       /\ last'.calls = 0
       /\ itree' = itree
       /\ frames' = frames
       /\ valuesList' = valuesList]_vars

GateReturnsFalseWitness ==
  /\ last.op = "check"
  /\ last.inst # itree[currentINode].nodeId
  /\ \E j \in 1..Len(Bucket(currentINode)) :
       subsumed(Bucket(currentINode)[j], currentINode, "True").res

\* C7: an entry whose solver call does not come back valid does not
\* subsume; the check goes on to the next entry of the bucket, and when no
\* entry subsumes, no frame or value is marked and isSubsumed is unchanged.
NotValidContinues ==
  [][last'.op = "check" =>
       \A j \in 1..Len(last'.answers) :
         last'.answers[j] \in NotValidAnswers =>
           /\ last'.by # j
           /\ j < Len(Bucket(currentINode)) => Len(last'.answers) > j
           /\ last'.by = 0 => /\ itree' = itree
                              /\ frames' = frames
                              /\ valuesList' = valuesList]_vars

NotValidContinuesWitness ==
  /\ last.op = "check"
  /\ last.by = 2
  /\ last.answers[1] \in NotValidAnswers

(***************************************************************************)
(* Properties of the allocation graph and of the dependency contexts.      *)
(***************************************************************************)
\* C8: a node of the graph is in the sink list if and only if no node of
\* the graph lists it as a parent.
SinksAreChildless ==
  \A v \in 1..Len(allNodes) :
    (\E i \in 1..Len(sinks) : sinks[i] = v) <=>
      ~\E w \in 1..Len(allNodes) : isCurrentParent(parents[w], v)

\* The cells of the contexts 1..d, oldest first.
RECURSIVE CellsOnChain(_, _)
CellsOnChain(dep, d) ==
  IF d = 0 THEN <<>> ELSE CellsOnChain(dep, d - 1) \o dep[d].storesList

StoredOnChain(dep, d, allocation) ==
  LET IsCell(c) == c.allocation = allocation
      cells == SelectSeq(CellsOnChain(dep, d), IsCell)
  IN [i \in 1..Len(cells) |-> cells[i].value]

\* C9: in every context, stores of a singleton allocation returns at most
\* one value, the newest one stored on the chain down to the context, and
\* stores of a composite allocation returns every value stored into it on
\* that chain, oldest first.
StoresNewestOrAll ==
  \A d \in 1..Len(dependency) :
    \A a \in 1..Len(AllAllocations(SubSeq(dependency, 1, d))) :
      LET onChain == StoredOnChain(dependency, d, a)
          ret == stores(dependency, d, a)
      IN IF isComposite(dependency, a) THEN ret = onChain
         ELSE /\ Len(ret) <= 1
              /\ onChain = <<>> => ret = <<>>
              /\ onChain # <<>> => ret = <<onChain[Len(onChain)]>>

StoresNewestOrAllWitness ==
  /\ Len(dependency) = 2
  /\ \E a \in 1..Len(AllAllocations(dependency)) :
       /\ ~isComposite(dependency, a)
       /\ LocalStores(dependency[1], a) # <<>>
       /\ Len(stores(dependency, 2, a)) = 1
  /\ \E c \in 1..Len(AllAllocations(dependency)) :
       /\ isComposite(dependency, c)
       /\ LocalStores(dependency[1], c) # <<>>
       /\ LocalStores(dependency[2], c) # <<>>
       /\ Len(stores(dependency, 2, c)) >= 2

\* The values stored by store instructions into the versions of the
\* allocation of a site, oldest first.
StoredInto(dep, site) ==
  LET IsStore(c) == /\ AllAllocations(dep)[c.allocation].site = site
                    /\ AllValues(dep)[c.value].value \in DataSites
      cells == SelectSeq(CellsOnChain(dep, Len(dep)), IsStore)
  IN [i \in 1..Len(cells) |-> cells[i].value]

FlowSourcesOf(dep, targets) ==
  LET flows == UNION {{dep[d].flowsToList[k] :
                         k \in 1..Len(dep[d].flowsToList)} :
                      d \in 1..Len(dep)}
  IN {f.source : f \in {g \in flows : g.target \in targets}}

\* C10: a load from a singleton allocation that has been stored into makes
\* the loaded value depend on the value stored last and on no other.
LoadObservesNewest ==
  (/\ lastExecuted.opcode = "Load"
   /\ ~isCompositeAllocation(PointsTo[lastExecuted.op0])
   /\ StoredInto(dependency, PointsTo[lastExecuted.op0]) # <<>>) =>
    LET stored == StoredInto(dependency, PointsTo[lastExecuted.op0])
    IN FlowSourcesOf(dependency, lastExecuted.values) = {stored[Len(stored)]}

\* C11: a store through a pointer to a composite allocation leaves the
\* allocations and the pointer equalities of the chain as they were, and no
\* instruction changes the allocation getLatestAllocation returns for a
\* composite site that has one.
EqualitiesOnChain(dep) == [d \in 1..Len(dep) |-> dep[d].equalityList]

SplitMakesChildren ==
  [][nextNode' # nextNode =>
       \E p \in live :
         LET l == itree'[p].left
             r == itree'[p].right
         IN /\ IsLeaf(p)
            /\ l # r
            /\ {l, r} \cap (live \cup {NULL}) = {}
            /\ live' = live \cup {l, r}
            /\ \A ch \in {l, r} :
                 /\ itree'[ch].parent = p
                 /\ itree'[ch].pathCondition = itree[p].pathCondition
                 /\ itree'[ch].store = NULL
                 /\ itree'[ch].nodeId = 0
                 /\ ~itree'[ch].isSubsumed
                 /\ itree'[ch].left = NULL /\ itree'[ch].right = NULL
            /\ itree'[p].pathCondition = itree[p].pathCondition
            /\ itree'[p].store = itree[p].store
            /\ frames' = frames
            /\ valuesList' = valuesList]_vars

SplitMakesChildrenWitness ==
  \E p \in live :
    /\ itree[p].pathCondition # NULL
    /\ itree[p].store # NULL
    /\ itree[p].parent # NULL
    /\ {itree[p].left, itree[p].right} \subseteq live
    /\ itree[p].left # itree[p].right
    /\ \A ch \in {itree[p].left, itree[p].right} :
         /\ itree[ch].pathCondition = itree[p].pathCondition
         /\ itree[ch].store = NULL
         /\ itree[ch].nodeId = 0

\* C13: markPathCondition leaves as core every frame of the current node's
\* path condition whose constraint is a clause of the unsat core, whatever
\* the order of the clauses and whatever other clauses the core holds.
MarksEveryCoreFrame ==
  [][\A unsatCore \in UnsatCores(currentINode), binst \in BOOLEAN :
       MarkPathCondition(unsatCore, binst) =>
         \A f \in ChainSet(itree[currentINode].pathCondition) :
           (\E i \in 1..Len(unsatCore) :
              unsatCore[i] = frames[f].constraint) => frames'[f].core]_vars

\* The values read out of the allocations of a site: the targets of the
\* flows via one of its allocations, and the loaded values a load of an
\* allocation without content left in it.
ReadOutOf(dep, site) ==
  LET al == AllAllocations(dep)
      vl == AllValues(dep)
  IN UNION {
       {f.target : f \in {dep[d].flowsToList[k] :
                            k \in 1..Len(dep[d].flowsToList)} \cap
                         {g \in {dep[d].flowsToList[k] :
                                   k \in 1..Len(dep[d].flowsToList)} :
                            g.via # NULL /\ al[g.via].site = site}}
       \cup {c.value : c \in {x \in {dep[d].storesList[k] :
                                       k \in 1..Len(dep[d].storesList)} :
                                 /\ al[x.allocation].site = site
                                 /\ vl[x.value].value \in
                                      {LoadSite[ptr] : ptr \in PointerSites}}}
       : d \in 1..Len(dep)}

\* C14: the allocations the singleton and the composite store of an entry
\* list are allocations whose content was read into a value in the
\* interpolant; an allocation that was only written is not listed.
FootprintIsMinimal ==
  \A site \in getLatestCoreExpressions(dependency, inInterpolant)
              \cup getCompositeCoreExpressions(dependency, inInterpolant) :
    ReadOutOf(dependency, site) \cap inInterpolant # {}

\* C15: a mapping of the shadow-array map, once made, is never changed or
\* removed, and no array is mapped to a null shadow.
ShadowMapIsWriteOnce ==
  [][/\ \A a \in DOMAIN shadowMap :
          a \in DOMAIN shadowMap' /\ shadowMap'[a] = shadowMap[a]
     /\ \A a \in DOMAIN shadowMap' : shadowMap'[a] # NULL]_vars

\* C16: a renaming that repeats the renaming before it, of the same
\* expression with the same replacements, returns the same expression and
\* leaves replacements and the shadow-array map as they are.
RenamingIsIdempotent ==
  [][\A expr \in ShadowPool :
       /\ (lastShadow.op = "rename" /\ lastShadow.expr = expr
             /\ GetShadowExpressionWith(expr))
            => /\ lastShadow'.ret = lastShadow.ret
               /\ replacements' = replacements
               /\ shadowMap' = shadowMap
       /\ (lastShadow.op = "shadow" /\ lastShadow.expr = expr
             /\ GetShadowExpression(expr))
            => /\ lastShadow'.ret = lastShadow.ret
               /\ shadowMap' = shadowMap]_vars

RenamingIsIdempotentWitness ==
  /\ lastShadow.op = "rename"
  /\ lastShadow.again
  /\ ~isRead(lastShadow.expr) /\ ~isConstant(lastShadow.expr)
  /\ Cardinality(replacements) = 2
  /\ numShadows > 0

\* The values the variables of a formula range over, and the values that
\* are tried for the bound variable.
FreeValues == (0 - MaxVal)..MaxVal
BoundValues == (0 - 4 * MaxVal)..(4 * MaxVal)

\* The value of a linear expression and the truth of a comparison, with xv
\* the value of the bound variable and yv that of the state's variable.
RECURSIVE EvalLinear(_, _, _)
EvalLinear(e, xv, yv) ==
  IF isConstant(e) THEN e[2]
  ELSE IF isRead(e) THEN (IF e[2] = BoundArray THEN xv ELSE yv)
  ELSE IF e[1] = "Add"
  THEN EvalLinear(e[2], xv, yv) + EvalLinear(e[3], xv, yv)
  ELSE IF e[1] = "Sub"
  THEN EvalLinear(e[2], xv, yv) - EvalLinear(e[3], xv, yv)
  ELSE EvalLinear(e[2], xv, yv) * EvalLinear(e[3], xv, yv)

EvalComparison(c, xv, yv) ==
  LET l == EvalLinear(c[2], xv, yv)
      r == EvalLinear(c[3], xv, yv)
  IN CASE c[1] = "Sle" -> l <= r
       [] c[1] = "Slt" -> l < r
       [] c[1] = "Sge" -> l >= r
       [] c[1] = "Sgt" -> l > r

\* C17: the formula simplifyWithFourierMotzkin returns is satisfied by a
\* value of the state's variable iff the body is satisfied by that value
\* and some value of the bound variable.
EliminationPreservesSat ==
  (fmResult.done /\ ~fmResult.unchanged) =>
    \A yv \in FreeValues :
      (\A i \in 1..Len(fmResult.conjuncts) :
         \A xv \in BoundValues :
           EvalComparison(fmResult.conjuncts[i], xv, yv))
      <=> (\E xv \in BoundValues :
             /\ EvalComparison(fmBody[1], xv, yv)
             /\ EvalComparison(fmBody[2], xv, yv))

\* C18: a Load or a Store whose address operand has a versioned value that
\* resolves to no allocation ends in the fatal state.
UnresolvedAddressIsFatal ==
  [][\A i \in Program \cup LoadedPointerProgram :
       LET address == IF i.opcode = "Load" THEN i.op0 ELSE i.op1
           arg == getLatestValue(dependency, Len(dependency), address)
       IN (/\ i.opcode \in {"Load", "Store"}
           /\ execute(i)
           /\ arg # NULL
           /\ resolveAllocationTransitively(
                dependency, Len(dependency), arg) = <<>>)
          => fatal']_vars

\* The frames of a node's path condition that carry a clause of a core.
FramesOf(n, unsatCore) ==
  {f \in ChainSet(itree[n].pathCondition) : frames[f].constraint \in unsatCore}

\* C19: a clause of the unsat core that matches no frame is skipped, with
\* no error, and the other clauses are processed: a subsumption check that
\* marks the core marks exactly the frames of the clauses that match, and
\* unsatCoreInterpolation records only clauses that pcDepth holds, every
\* one of them in every ancestor at or below its depth.
CoreSkipsUnmatched ==
  [][/\ (last'.op = "check" /\ last'.skipped)
        => \A inst \in {last'.inst} :
          \A r \in SolverRuns(currentINode, inst) :
            (CheckCurrentStateSubsumption(inst, r[1], r[2], r[3])
               /\ BranchCondition \in r[3])
            => /\ ~crashed'
               /\ frames' =
                    setAsCore(frames,
                      IF last'.by # 0 /\ last'.paths[last'.by] = "evaluate"
                      THEN FramesOf(currentINode, r[3]) ELSE {})
     /\ \A unsatCore \in TxCores :
          UnsatCoreInterpolation(unsatCore)
          => LET pcDepth == txPath[Len(txPath)].pcDepth
             IN \A k \in 1..Len(txPath) :
                  /\ (txPath'[k].usedByLeftPath
                        \cup txPath'[k].usedByRightPath)
                       \ (txPath[k].usedByLeftPath
                            \cup txPath[k].usedByRightPath)
                       \subseteq DOMAIN pcDepth
                  /\ \A i \in 1..Len(unsatCore) :
                       (/\ unsatCore[i] \in DOMAIN pcDepth
                        /\ k < Len(txPath)
                        /\ pcDepth[unsatCore[i]] <= k - 1)
                       => unsatCore[i] \in
                            (txPath'[k].usedByLeftPath
                               \cup txPath'[k].usedByRightPath)]_vars

\* A check has marked the core of a subsuming entry and skipped a clause.
SubsumedSkipped ==
  /\ last.op = "check" /\ last.res /\ last.skipped
  /\ \E f \in ChainSet(itree[currentINode].pathCondition) : frames[f].core

\* An interpolation has skipped the first clause of the core and recorded
\* the second in an ancestor.
InterpolationSkipped ==
  /\ txLast.called
  /\ Len(txLast.unsatCore) = 2
  /\ txLast.unsatCore[1] \notin DOMAIN txPath[Len(txPath)].pcDepth
  /\ \E k \in 1..(Len(txPath) - 1) :
       txLast.unsatCore[2] \in
         txPath[k].usedByLeftPath \cup txPath[k].usedByRightPath

\* The nodes of a list.
NodesOf(list) == {list[i] : i \in 1..Len(list)}

\* C20: consumeSinkNode(a), called when the node of a is a sink, takes the
\* node out of the sink list and leaves every parent of it in the list
\* exactly once; the other sinks, the nodes and the parent lists stay.
ConsumeReplacesSinkByParents ==
  [][\A allocation \in Allocations, pos \in SinkRange \ {0},
        erased \in SinkRange :
       (consumeSinkNode(allocation, pos, erased)
          /\ SinkPositions(allocation) # {})
       => /\ ~graphCrashed'
          /\ NodesOf(sinks') =
               (NodesOf(sinks) \ {sinks[pos]})
                 \cup NodesOf(parents[sinks[pos]])
          /\ Cardinality(NodesOf(sinks')) = Len(sinks')
          /\ allNodes' = allNodes
          /\ parents' = parents]_vars

(***************************************************************************)
(* Properties of the table entries and of the interpolant.                 *)
(***************************************************************************)
\* C21: an entry with an empty interpolant and an empty store subsumes
\* every state checked at its program point, whatever the state's path
\* condition and store, and the solver is not called for it: a check that
\* gets as far as the entry ends there with the answer true.
EmptyEntrySubsumes ==
  (/\ last.op = "check"
   /\ currentINode \in live
   /\ last.inst = itree[currentINode].nodeId)
  => LET entryList == subsumptionTable[itree[currentINode].nodeId]
     IN \A j \in 1..Len(entryList) :
          empty(entryList[j])
          => /\ last.res
             /\ last.by <= j
             /\ last.by = j => /\ last.paths[j] = "empty"
                               /\ last.answers[j] = "none"

\* A state with a constraint and a stored value was subsumed by an empty
\* entry.
EmptyEntrySubsumesWitness ==
  /\ last.op = "check" /\ last.res
  /\ last.paths[last.by] = "empty"
  /\ itree[currentINode].pathCondition # NULL
  /\ LatestStore(currentINode) # NULL

\* The shadow arrays that occur in a conjunction.
ShadowsIn(conj) ==
  UNION {ArraysOf(conj[i]) : i \in 1..Len(conj)} \ SourceArrays

\* C22: the existentials of every entry of the table hold every shadow
\* array that occurs in the entry's interpolant, also when a core frame was
\* shadowed while an earlier entry was built.
ExistentialsCoverInterpolant ==
  \A id \in DOMAIN subsumptionTable :
    \A j \in 1..Len(subsumptionTable[id]) :
      ShadowsIn(subsumptionTable[id][j].interpolant)
        \subseteq subsumptionTable[id][j].existentials

\* The shadows of the constraints of the core frames from frame f to the
\* end of the list, newest first.
RECURSIVE CoreConjunction(_)
CoreConjunction(f) ==
  IF f = NULL THEN <<>>
  ELSE (IF frames[f].core THEN <<getShadowExpression(frames[f].constraint)>>
        ELSE <<>>) \o CoreConjunction(frames[f].tail)

\* The frames after a first packInterpolant has shadowed its core frames.
AfterPacking(pc) ==
  [f \in 1..Len(frames) |->
     IF f \in packInterpolant(frames, pc).shadowedNow
     THEN [frames[f] EXCEPT !.shadowed = TRUE] ELSE frames[f]]

EqualitySet(dep) ==
  UNION {{dep[d].equalityList[k] : k \in 1..Len(dep[d].equalityList)} :
           d \in 1..Len(dep)}

FlowSet(dep) ==
  UNION {{dep[d].flowsToList[k] : k \in 1..Len(dep[d].flowsToList)} :
           d \in 1..Len(dep)}

\* C24: after a load through an address that resolves to a composite
\* allocation with stored values, the value V that getLatestValue returns
\* for the load depends on every stored value: V equals every allocation
\* the stored value resolves to, or the stored value flows to V via the
\* allocation.
LoadDependsOnEveryStore ==
  [][(lastExecuted'.opcode = "Load" /\ numExecuted' = numExecuted + 1)
     => LET d == Len(dependency)
            arg == getLatestValue(dependency, d, lastExecuted'.op0)
            allocList == IF arg = NULL THEN <<>>
                         ELSE resolveAllocationTransitively(dependency, d, arg)
            V == getLatestValue(dependency', d,
                                LoadSite[lastExecuted'.op0])
        IN \A i \in 1..Len(allocList) :
             isComposite(dependency, allocList[i])
             => LET valList == stores(dependency, d, allocList[i])
                IN \A j \in 1..Len(valList) :
                     LET alloc2 == resolveAllocationTransitively(
                                     dependency, d, valList[j])
                     IN IF alloc2 # <<>>
                        THEN \A k \in 1..Len(alloc2) :
                               [value |-> V, allocation |-> alloc2[k]]
                                 \in EqualitySet(dependency')
                        ELSE [source |-> valList[j], target |-> V,
                              via |-> allocList[i]]
                               \in FlowSet(dependency')]_vars

\* The values that flow to a value of S in one step.
FlowsInto(dep, S) == {f.source : f \in {g \in FlowSet(dep) : g.target \in S}}

\* The values that reach a value of S in k steps.
RECURSIVE FlowsIntoAfter(_, _, _)
FlowsIntoAfter(dep, S, k) ==
  IF k = 0 THEN S ELSE FlowsIntoAfter(dep, FlowsInto(dep, S), k - 1)

\* C25: every flow edge an operation adds targets a versioned value the
\* same operation has created, so no value of the chain reaches itself
\* along flow edges and the transitive resolutions recurse finitely.
FlowIsAcyclic ==
  [][/\ \A f \in FlowSet(dependency') \ FlowSet(dependency) :
          /\ f.target \in NewIds(dependency, dependency')
          /\ f.source # f.target
     /\ \A v \in 1..Len(AllValues(dependency')) :
          \A k \in 1..Len(AllValues(dependency')) :
            v \notin FlowsIntoAfter(dependency', {v}, k)]_vars

\* A call has bound a formal to a loaded value and the other to a value
\* that is in no list, and a return has bound the call site to a formal.
FlowIsAcyclicWitness ==
  /\ \E f \in FlowSet(dependency), g \in FlowSet(dependency) :
       /\ f.target = g.source
       /\ f.source > 0
       /\ AllValues(dependency)[f.source].value = "ta"
       /\ AllValues(dependency)[f.target].value \in {"f1", "f2"}
       /\ AllValues(dependency)[g.target].value = "r"
  /\ \E f \in FlowSet(dependency) : f.source < 0

NoDuplicate(vector) ==
  \A i \in 1..Len(vector), j \in 1..Len(vector) :
    vector[i] = vector[j] => i = j

\* C26: the vectors that allFlowSources and allFlowSourcesEnds return for
\* a value of the chain hold no versioned value twice.
FlowSourcesAreDistinct ==
  \A v \in 1..Len(AllValues(dependency)) :
    /\ NoDuplicate(allFlowSourcesVector(dependency, Len(dependency), v))
    /\ NoDuplicate(allFlowSourcesEndsVector(dependency, Len(dependency), v))

\* The nodes reached from node n by parent links in at most k steps.
RECURSIVE AncestorsWithin(_, _)
AncestorsWithin(n, k) ==
  IF k = 0 THEN {}
  ELSE LET direct == {parents[n][j] : j \in 1..Len(parents[n])}
       IN direct \cup UNION {AncestorsWithin(m, k - 1) : m \in direct}

\* C27: in the allocation graph that buildAllocationGraph builds from a
\* dependency context no allocation is its own ancestor through parent
\* links.
AllocationGraphIsAcyclic ==
  \A n \in 1..Len(allNodes) :
    allNodes[n] \notin
      {allNodes[m] : m \in AncestorsWithin(n, Len(allNodes))}

RelationLists ==
  {"valuesList", "allocationsList", "equalityList", "storesList",
   "flowsToList"}

\* C28: a step of execute, bindCallArguments or bindReturnValue keeps every
\* relation list of every context as a prefix of the list afterwards, and
\* leaves the lists of the ancestors of the current context as they are.
ListsAreAppendOnlyAndLocal ==
  [][/\ Len(dependency') >= Len(dependency)
     /\ \A d \in 1..Len(dependency) :
          /\ d < Len(dependency) => dependency'[d] = dependency[d]
          /\ \A list \in RelationLists :
               IsPrefix(dependency[d][list], dependency'[d][list])]_vars

\* A call was bound in a child context whose parent holds values, cells
\* and flow edges, after a store in the child.
ListsAreAppendOnlyAndLocalWitness ==
  /\ Len(dependency) = 2
  /\ dependency[1].flowsToList # <<>>
  /\ dependency[1].storesList # <<>>
  /\ dependency[2].storesList # <<>>
  /\ dependency[2].flowsToList # <<>>
  /\ lastExecuted.opcode = "Call"

\* The flow edges of the current context that the step has appended.
NewFlows ==
  SubSeq(dependency'[Len(dependency)].flowsToList,
         Len(dependency[Len(dependency)].flowsToList) + 1,
         Len(dependency'[Len(dependency)].flowsToList))

\* C29: bindCallArguments makes one new versioned value per formal, the
\* i-th of the i-th formal with the expression of the i-th actual, adds a
\* flow edge to it from the latest versioned value of the i-th actual, or
\* from a fresh one when the actual has none, and leaves the work list
\* empty.
CallBindsPositionally ==
  [][lastExecuted'.opcode = "Call" /\ numExecuted' = numExecuted + 1 =>
       LET actuals == <<lastExecuted'.op0, lastExecuted'.op1>>
           before == Len(AllValues(dependency))
           after == AllValues(dependency')
       IN /\ Len(dependency') = Len(dependency)
          /\ Len(after) = before + Len(Formals)
          /\ Len(NewFlows) = Len(Formals)
          /\ argumentValuesList' = <<>>
          /\ \A i \in 1..Len(Formals) :
               LET latest == getLatestValue(dependency, Len(dependency),
                                            actuals[i])
               IN /\ after[before + i].value = Formals[i]
                  /\ after[before + i].expr =
                       (IF latest # NULL
                        THEN getExpression(AllValues(dependency)[latest])
                        ELSE ValueExpr(actuals[i]))
                  /\ NewFlows[i].target = after[before + i].id
                  /\ NewFlows[i].via = NULL
                  /\ IF latest # NULL THEN NewFlows[i].source = latest
                     ELSE NewFlows[i].source < 0]_vars

\* A call whose first actual is a constant without a versioned value and
\* whose second is a loaded value has been bound.
CallBindsPositionallyWitness ==
  /\ lastExecuted.opcode = "Call"
  /\ lastExecuted.op0 = "d1"
  /\ lastExecuted.op1 = "ta"
  /\ getLatestValue(dependency, Len(dependency), "f2") # NULL
  /\ \E f \in FlowSet(dependency) : f.source < 0
  /\ argumentValuesList = <<>>

\* The clauses of the core of the call that the path condition it was
\* called on knows, with a recorded depth of at most k.
CoreUpTo(k) ==
  LET pcDepth == txWalk.before[Len(txWalk.before)].pcDepth
  IN {c \in {txWalk.unsatCore[i] : i \in 1..Len(txWalk.unsatCore)}
            \cap DOMAIN pcDepth : pcDepth[c] <= k}

\* After the return every proper ancestor, at depth k, has gained exactly
\* CoreUpTo(k) under the side of its child on the path, and nothing else
\* of the chain has changed.
InterpolationIsExact ==
  txWalk.done =>
    /\ Len(txPath) = Len(txWalk.before)
    /\ txPath[Len(txPath)] = txWalk.before[Len(txPath)]
    /\ \A j \in 1..(Len(txPath) - 1) :
         txPath[j] =
           IF txWalk.before[j + 1].side = "left"
           THEN [txWalk.before[j] EXCEPT
                   !.usedByLeftPath = @ \cup CoreUpTo(j - 1)]
           ELSE [txWalk.before[j] EXCEPT
                   !.usedByRightPath = @ \cup CoreUpTo(j - 1)]

\* C30: a call of unsatCoreInterpolation returns, and when it has returned
\* every proper ancestor at depth k has gained, under usedByLeftPath or
\* usedByRightPath by the side of its child on the path, exactly the
\* clauses of the core known to the path condition with a recorded depth
\* of at most k; ancestors above the shallowest clause are unchanged.
InterpolationReturnsExact ==
  /\ [](InterpolationIsExact)
  /\ (txWalk.active ~> txWalk.done)

\* A call on a node of depth 2 has returned whose core has a clause of
\* depth 0 and one of depth 1: the root has gained one clause and its
\* child two.
InterpolationReturnsExactWitness ==
  /\ txWalk.done
  /\ Len(txPath) = 3
  /\ Cardinality(CoreUpTo(0)) = 1
  /\ Cardinality(CoreUpTo(1)) = 2
  /\ txWalk.before[1].usedByLeftPath \cup txWalk.before[1].usedByRightPath
       = {}
  /\ txPath[1].usedByLeftPath \cup txPath[1].usedByRightPath = CoreUpTo(0)
  /\ txPath[2].usedByLeftPath \cup txPath[2].usedByRightPath = CoreUpTo(1)

====
